---- MODULE Spec2Model ----
(***************************************************************************)
(* A model of grapho: the catalog (copy-on-write Apply* functions over a   *)
(* heap of Catalog / NodeType / EdgeType objects), the catalog registry    *)
(* and its file store, the commit log, the executor and the server.        *)
(***************************************************************************)
EXTENDS Integers, Sequences, FiniteSets, TLC

VARIABLES
    heap,       \* Go heap: address -> Catalog / NodeType / EdgeType object
    ain,        \* Apply* harness: address of the catalog passed in
    aout,       \* Apply* harness: address returned (0 = nil)
    aerr,       \* Apply* harness: error returned ("" = nil)
    apre,       \* Apply* harness: value of the input catalog before the call
    asteps,     \* Apply* harness: number of calls made
    cur,        \* Registry.cur: address of the published catalog
    ddlOffset,  \* Registry.ddlOffset
    ddlLog,     \* catalog-ddl.jsonl: the sequence of its lines
    manifest,   \* CATALOG-MANIFEST.json: <<>> when the file is missing, else <<m>>
    snaps,      \* catalog-snap-<version>.json files: version -> JSON document
    rlast,      \* the last registry call: what it was and what it returned
    rhist,      \* the registry calls made on this directory, oldest first
    clFormat,   \* CommitLog.format: "text" or "binary"
    clFile,     \* commit.log: the bytes written to the file
    clFileOpen, \* whether CommitLog.file is still open
    clBuf,      \* CommitLog.w, the bufio.Writer: [mem, n, err]
    clQueue,    \* CommitLog.queue: the commands in the channel
    clStarted,  \* CommitLog.started
    clClosed,   \* whether the channel CommitLog.closed is closed
    clDone,     \* whether the channel CommitLog.done is closed
    clMu,       \* CommitLog.mu: its holder, or "" when free
    clPc,       \* where each goroutine of the commit log is
    clTodo,     \* the bufio.Writer calls each goroutine still has to make
    clLoc,      \* the value of w.n a goroutine read in the call it is inside (-1: none)
    clCur,      \* the Append call each client is inside (its index in clCalls)
    clCalls,    \* the Append calls made so far, in call order
    graph,      \* Executor.graph: [Nodes, Edges, NextID]
    srvPhase,   \* the server process: "listening", "stopped", "replaying", "restarted", "failed"
    conn,       \* each connection's handler: where it is in executeCommand, and its locals
    srvHist,    \* the commands ExecuteStatements has returned for, in that order
    replay,     \* startup replay: the commands still to deliver, the statements of the
                \* current one, Replay's own error, the length of the file at startup
    srvSaved,   \* the catalog and the graph just before the shutdown
    muW,        \* Registry.muW: its holder, or "" when free
    wr,         \* each goroutine calling Registry.Apply: where it is, and its locals
    rd,         \* a reader: the *Catalog it got from Current() and its value at that time
    calls,      \* the Apply calls that have returned, in the order of their return
    ex,         \* the ExecuteStatements call in progress: the statements given, the
                \* ones executed so far with their errors, the mutation bit
    exhist,     \* the ExecuteStatements calls that have returned, in that order
    ps,         \* a parser: the tokens of its input, its position, the statements
                \* and errors collected, the turns of ParseScript's loop so far,
                \* and whether ParseScript has returned
    fsMu,       \* fileStore.mu: its holder, or "" when free
    ad,         \* each goroutine calling fileStore.AppendDDL: where it is, its locals
    adCalls     \* the AppendDDL calls that have returned, in the order of their return

applyVars == <<ain, aout, aerr, apre, asteps>>
regVars == <<cur, ddlOffset, ddlLog, manifest, snaps, rlast, rhist>>
logVars == <<clFormat, clFile, clFileOpen, clBuf, clQueue, clStarted, clClosed, clDone,
             clMu, clPc, clTodo, clLoc, clCur, clCalls>>
srvVars == <<graph, srvPhase, conn, srvHist, replay, srvSaved>>
wrVars == <<muW, wr, rd, calls>>
exVars == <<ex, exhist>>
psVars == <<ps>>
stVars == <<fsMu, ad, adCalls>>
vars == <<heap, applyVars, regVars, logVars, srvVars, wrVars, exVars, psVars, stVars>>

(***************************************************************************)
(* Bounds and vocabulary                                                   *)
(***************************************************************************)
HeapSize == 12
MaxApplies == 5

NodeOrder == <<"A", "B", "C">>
EdgeOrder == <<"E">>

(***************************************************************************)
(* Generic helpers for Go maps (functions with a finite domain)            *)
(***************************************************************************)
EmptyMap == [x \in {} |-> x]
Put(m, k, v) == [x \in (DOMAIN m) \cup {k} |-> IF x = k THEN v ELSE m[x]]
Del(m, k) == [x \in (DOMAIN m) \ {k} |-> m[x]]
Has(m, k) == k \in DOMAIN m
Range(s) == {s[i] : i \in DOMAIN s}
NameSeq(S, order) == SelectSeq(order, LAMBDA n : n \in S)
IndexOf(s, x) == CHOOSE i \in DOMAIN s : s[i] = x

(***************************************************************************)
(* catalog types                                                           *)
(***************************************************************************)
ScalarBases == {"STRING", "TEXT", "INT", "FLOAT", "BOOL", "UUID", "DATE", "TIME", "DATETIME"}

\* TypeSpec{Base, Elem *TypeSpec, EnumVals []string}; a nil pointer is <<>>
TypeOf(base) == [Base |-> base, Elem |-> <<>>, EnumVals |-> <<>>]
TypeEnum(vals) == [Base |-> "ENUM", Elem |-> <<>>, EnumVals |-> vals]

isScalarType(t) == t.Base \in ScalarBases

RECURSIVE cloneType(_)
cloneType(t) ==
    [Base |-> t.Base,
     Elem |-> IF t.Elem = <<>> THEN <<>> ELSE <<cloneType(t.Elem[1])>>,
     EnumVals |-> [i \in 1..Len(t.EnumVals) |-> t.EnumVals[i]]]

cloneFieldSpec(v) ==
    [Name |-> v.Name, Type |-> cloneType(v.Type), Unique |-> v.Unique,
     NotNull |-> v.NotNull,
     DefaultRaw |-> IF v.DefaultRaw = <<>> THEN <<>> ELSE <<v.DefaultRaw[1]>>]

cloneNodeType(n) ==
    [kind |-> "node", Name |-> n.Name,
     Fields |-> [k \in DOMAIN n.Fields |-> cloneFieldSpec(n.Fields[k])],
     PK |-> n.PK,
     Indexes |-> [k \in DOMAIN n.Indexes |-> n.Indexes[k]]]

cloneEdgeType(e) ==
    [kind |-> "edge", Name |-> e.Name, From |-> e.From, To |-> e.To,
     Props |-> [k \in DOMAIN e.Props |-> cloneFieldSpec(e.Props[k])]]

(***************************************************************************)
(* The heap.  A *Catalog, *NodeType or *EdgeType is an address; 0 is nil.  *)
(***************************************************************************)
Free == [kind |-> "free"]
EmptyHeap == [a \in 1..HeapSize |-> Free]
Alloc(h) == CHOOSE a \in 1..HeapSize : h[a] = Free /\ \A b \in 1..(a - 1) : h[b] # Free

RECURSIVE StoreAll(_, _)
StoreAll(h, objs) ==
    IF objs = <<>> THEN [heap |-> h, addrs |-> <<>>]
    ELSE LET a == Alloc(h)
             r == StoreAll([h EXCEPT ![a] = Head(objs)], Tail(objs))
         IN [heap |-> r.heap, addrs |-> <<a>> \o r.addrs]

\* The addresses a catalog reaches, and the garbage collector that frees the rest
Reach(h, c) ==
    IF c = 0 THEN {}
    ELSE {c} \cup Range(h[c].Nodes) \cup Range(h[c].Edges)
Collect(h, roots) ==
    LET live == UNION {Reach(h, c) : c \in roots}
    IN [a \in 1..HeapSize |-> IF a \in live THEN h[a] ELSE Free]

\* The value of a catalog: what a reader sees by following its pointers
CatValue(h, c) ==
    [Version |-> h[c].Version,
     Nodes |-> [n \in DOMAIN h[c].Nodes |-> h[h[c].Nodes[n]]],
     Edges |-> [e \in DOMAIN h[c].Edges |-> h[h[c].Edges[e]]]]

EmptyCatalogValue == [Version |-> 0, Nodes |-> EmptyMap, Edges |-> EmptyMap]

\* NewEmpty()
NewEmpty(h) ==
    LET a == Alloc(h)
    IN [heap |-> [h EXCEPT ![a] = [kind |-> "catalog", Version |-> 0,
                                   Nodes |-> EmptyMap, Edges |-> EmptyMap]],
        out |-> a]

\* A mutant of Clone: the new catalog shares the NodeType and EdgeType objects
CloneShallow(h, c) ==
    LET a == Alloc(h)
    IN [heap |-> [h EXCEPT ![a] = h[c]], out |-> a]

\* (c *Catalog) Clone()
Clone(h, c) ==
    LET cat == h[c]
        ns == NameSeq(DOMAIN cat.Nodes, NodeOrder)
        es == NameSeq(DOMAIN cat.Edges, EdgeOrder)
        r1 == StoreAll(h, [i \in 1..Len(ns) |-> cloneNodeType(h[cat.Nodes[ns[i]]])])
        r2 == StoreAll(r1.heap, [i \in 1..Len(es) |-> cloneEdgeType(r1.heap[cat.Edges[es[i]]])])
        a == Alloc(r2.heap)
    IN [heap |-> [r2.heap EXCEPT ![a] =
                    [kind |-> "catalog", Version |-> cat.Version,
                     Nodes |-> [n \in DOMAIN cat.Nodes |-> r1.addrs[IndexOf(ns, n)]],
                     Edges |-> [e \in DOMAIN cat.Edges |-> r2.addrs[IndexOf(es, e)]]]],
        out |-> a]

(***************************************************************************)
(* DDL payloads and the Apply* functions.  Each returns                    *)
(* [heap, out, err]: the heap after the call, the catalog returned (0 when *)
(* an error is returned) and the error ("" for nil).                       *)
(***************************************************************************)
Fail(h, e) == [heap |-> h, out |-> 0, err |-> e]
Ok(h, c) == [heap |-> h, out |-> c, err |-> ""]

EqualFoldNull(s) == s \in {"null", "NULL", "Null"}

FieldSpecOf(f) ==
    [Name |-> f.Name, Type |-> f.Type, Unique |-> f.Unique, NotNull |-> f.NotNull,
     DefaultRaw |-> f.DefaultRaw]
UniqueIndex(name) == [Field |-> name, Unique |-> TRUE]

RECURSIVE validateCreateNodeFields(_, _, _, _)
validateCreateNodeFields(fields, i, seen, pkCount) ==
    IF i > Len(fields)
    THEN IF pkCount > 1 THEN "multiple PRIMARY KEY fields" ELSE ""
    ELSE LET f == fields[i] IN
         IF f.Name = "" THEN "field with empty name"
         ELSE IF f.Name \in seen THEN "duplicate field"
         ELSE IF f.PrimaryKey /\ ~isScalarType(f.Type) THEN "primary key must be scalar"
         ELSE IF f.NotNull /\ f.DefaultRaw # <<>> /\ EqualFoldNull(f.DefaultRaw[1])
              THEN "field NOT NULL but default null"
         ELSE IF f.Type.Base = "ENUM" /\ Len(f.Type.EnumVals) = 0
              THEN "enum field must have values"
         ELSE validateCreateNodeFields(fields, i + 1, seen \cup {f.Name},
                                       IF f.PrimaryKey THEN pkCount + 1 ELSE pkCount)

validateCreateNode(cat, p) ==
    IF p.Name = "" THEN "node name required"
    ELSE IF Has(cat.Nodes, p.Name) THEN "node already exists"
    ELSE IF Len(p.Fields) = 0 THEN "node must define at least one field"
    ELSE validateCreateNodeFields(p.Fields, 1, {}, 0)

RECURSIVE createNodeFields(_, _, _)
createNodeFields(nt, fields, i) ==
    IF i > Len(fields) THEN [nt |-> nt, err |-> ""]
    ELSE LET f == fields[i] IN
         IF Has(nt.Fields, f.Name) THEN [nt |-> nt, err |-> "duplicate field"]
         ELSE LET nt1 == [nt EXCEPT !.Fields = Put(@, f.Name, FieldSpecOf(f))]
                  nt2 == IF f.PrimaryKey
                         THEN [nt1 EXCEPT !.PK = f.Name,
                                          !.Indexes = Put(@, f.Name, UniqueIndex(f.Name))]
                         ELSE IF f.Unique
                         THEN [nt1 EXCEPT !.Indexes = Put(@, f.Name, UniqueIndex(f.Name))]
                         ELSE nt1
              IN createNodeFields(nt2, fields, i + 1)

ApplyCreateNode(h, c, p) ==
    LET verr == validateCreateNode(h[c], p) IN
    IF verr # "" THEN Fail(h, verr)
    ELSE LET cl == Clone(h, c)
             r == createNodeFields([kind |-> "node", Name |-> p.Name, Fields |-> EmptyMap,
                                    PK |-> "", Indexes |-> EmptyMap], p.Fields, 1)
         IN IF r.err # "" THEN Fail(cl.heap, r.err)
            ELSE LET na == Alloc(cl.heap)
                     h1 == [cl.heap EXCEPT ![na] = r.nt]
                 IN Ok([h1 EXCEPT ![cl.out].Nodes = Put(@, p.Name, na),
                                  ![cl.out].Version = @ + 1], cl.out)

RECURSIVE validateCreateEdgeProps(_, _, _)
validateCreateEdgeProps(props, i, seen) ==
    IF i > Len(props) THEN ""
    ELSE LET f == props[i] IN
         IF f.Name = "" THEN "edge prop with empty name"
         ELSE IF f.Name \in seen THEN "duplicate edge prop"
         ELSE IF f.Type.Base = "ENUM" /\ Len(f.Type.EnumVals) = 0
              THEN "enum prop must have values"
         ELSE validateCreateEdgeProps(props, i + 1, seen \cup {f.Name})

validateCreateEdge(h, c, p) ==
    IF p.Name = "" THEN "edge name required"
    ELSE IF Has(h[c].Edges, p.Name) THEN "edge already exists"
    ELSE IF ~Has(h[c].Nodes, p.From.Label) THEN "FROM node type not found"
    ELSE IF ~Has(h[c].Nodes, p.To.Label) THEN "TO node type not found"
    ELSE validateCreateEdgeProps(p.Props, 1, {})

RECURSIVE createEdgeProps(_, _, _)
createEdgeProps(et, props, i) ==
    IF i > Len(props) THEN [et |-> et, err |-> ""]
    ELSE LET f == props[i] IN
         IF Has(et.Props, f.Name) THEN [et |-> et, err |-> "duplicate edge prop"]
         ELSE createEdgeProps([et EXCEPT !.Props = Put(@, f.Name, FieldSpecOf(f))],
                              props, i + 1)

ApplyCreateEdge(h, c, p) ==
    LET verr == validateCreateEdge(h, c, p) IN
    IF verr # "" THEN Fail(h, verr)
    ELSE LET cl == Clone(h, c)
             r == createEdgeProps([kind |-> "edge", Name |-> p.Name, From |-> p.From,
                                   To |-> p.To, Props |-> EmptyMap], p.Props, 1)
         IN IF r.err # "" THEN Fail(cl.heap, r.err)
            ELSE LET ea == Alloc(cl.heap)
                     h1 == [cl.heap EXCEPT ![ea] = r.et]
                 IN Ok([h1 EXCEPT ![cl.out].Edges = Put(@, p.Name, ea),
                                  ![cl.out].Version = @ + 1], cl.out)

RECURSIVE validateAlterNodeActions(_, _)
validateAlterNodeActions(actions, i) ==
    IF i > Len(actions) THEN ""
    ELSE LET a == actions[i] IN
         IF a.Type \in {"ADD_FIELD", "MODIFY_FIELD"}
         THEN IF a.Field = <<>> THEN "field required for action"
              ELSE IF a.Field[1].Name = "" THEN "field name required"
              ELSE IF a.Field[1].Type.Base = "ENUM" /\ Len(a.Field[1].Type.EnumVals) = 0
                   THEN "enum field must have values"
              ELSE IF a.Field[1].NotNull /\ a.Field[1].DefaultRaw # <<>>
                      /\ EqualFoldNull(a.Field[1].DefaultRaw[1])
                   THEN "field NOT NULL but default null"
              ELSE IF a.Field[1].PrimaryKey /\ ~isScalarType(a.Field[1].Type)
                   THEN "primary key must be scalar"
              ELSE validateAlterNodeActions(actions, i + 1)
         ELSE IF a.Type \in {"DROP_FIELD", "SET_PRIMARY_KEY"}
         THEN IF a.FieldName = "" THEN "field name required for action"
              ELSE validateAlterNodeActions(actions, i + 1)
         ELSE "unknown alter node action"

validateAlterNode(cat, p) ==
    IF p.Name = "" THEN "node name required"
    ELSE IF ~Has(cat.Nodes, p.Name) THEN "node does not exist"
    ELSE IF Len(p.Actions) = 0 THEN "at least one action required"
    ELSE validateAlterNodeActions(p.Actions, 1)

\* A mutant of the DROP_FIELD case: the primary key field can be dropped
dropFieldUnguarded(nt, a) ==
    IF ~Has(nt.Fields, a.FieldName) THEN [nt |-> nt, err |-> "field does not exist"]
    ELSE [nt |-> [nt EXCEPT !.Fields = Del(@, a.FieldName),
                            !.Indexes = Del(@, a.FieldName)],
          err |-> ""]

\* The DROP_FIELD case of ApplyAlterNode's loop
dropField(nt, a) ==
    IF ~Has(nt.Fields, a.FieldName) THEN [nt |-> nt, err |-> "field does not exist"]
    ELSE IF nt.PK = a.FieldName THEN [nt |-> nt, err |-> "cannot drop primary key field"]
    ELSE [nt |-> [nt EXCEPT !.Fields = Del(@, a.FieldName),
                            !.Indexes = Del(@, a.FieldName)],
          err |-> ""]

\* A mutant of the SET_PRIMARY_KEY case: the index of the old primary key is
\* removed even when that field is unique
setPrimaryKeyDropsIndex(nt, a) ==
    IF ~Has(nt.Fields, a.FieldName) THEN [nt |-> nt, err |-> "field does not exist"]
    ELSE IF ~isScalarType(nt.Fields[a.FieldName].Type)
         THEN [nt |-> nt, err |-> "primary key must be scalar"]
    ELSE LET nt1 == IF nt.PK # "" THEN [nt EXCEPT !.Indexes = Del(@, nt.PK)] ELSE nt
         IN [nt |-> [nt1 EXCEPT !.PK = a.FieldName,
                                !.Indexes = Put(@, a.FieldName, UniqueIndex(a.FieldName))],
             err |-> ""]

\* The SET_PRIMARY_KEY case of ApplyAlterNode's loop
setPrimaryKey(nt, a) ==
    IF ~Has(nt.Fields, a.FieldName) THEN [nt |-> nt, err |-> "field does not exist"]
    ELSE IF ~isScalarType(nt.Fields[a.FieldName].Type)
         THEN [nt |-> nt, err |-> "primary key must be scalar"]
    ELSE LET nt1 == IF nt.PK # "" /\ ~nt.Fields[nt.PK].Unique
                    THEN [nt EXCEPT !.Indexes = Del(@, nt.PK)]
                    ELSE nt
         IN [nt |-> [nt1 EXCEPT !.PK = a.FieldName,
                                !.Indexes = Put(@, a.FieldName, UniqueIndex(a.FieldName))],
             err |-> ""]

\* One iteration of ApplyAlterNode's loop on the NodeType nt: [nt, err]
alterNodeAction(nt, a) ==
    IF a.Type = "ADD_FIELD" THEN
        LET f == a.Field[1] IN
        IF Has(nt.Fields, f.Name) THEN [nt |-> nt, err |-> "field already exists"]
        ELSE LET nt1 == [nt EXCEPT !.Fields = Put(@, f.Name, FieldSpecOf(f))] IN
             IF f.PrimaryKey
             THEN IF nt1.PK # "" THEN [nt |-> nt1, err |-> "node already has a primary key"]
                  ELSE [nt |-> [nt1 EXCEPT !.PK = f.Name,
                                           !.Indexes = Put(@, f.Name, UniqueIndex(f.Name))],
                        err |-> ""]
             ELSE IF f.Unique
             THEN [nt |-> [nt1 EXCEPT !.Indexes = Put(@, f.Name, UniqueIndex(f.Name))],
                   err |-> ""]
             ELSE [nt |-> nt1, err |-> ""]
    ELSE IF a.Type = "DROP_FIELD" THEN dropField(nt, a)
    ELSE IF a.Type = "MODIFY_FIELD" THEN
        LET f == a.Field[1] IN
        IF ~Has(nt.Fields, f.Name) THEN [nt |-> nt, err |-> "field does not exist"]
        ELSE IF nt.PK = f.Name /\ f.PrimaryKey /\ ~isScalarType(f.Type)
             THEN [nt |-> nt, err |-> "primary key must be scalar"]
        ELSE IF nt.PK = f.Name /\ ~f.PrimaryKey
             THEN [nt |-> nt, err |-> "cannot remove primary key from field"]
        ELSE IF nt.PK # f.Name /\ f.PrimaryKey
             THEN [nt |-> nt, err |-> "cannot set primary key on field"]
        ELSE LET nt1 == [nt EXCEPT !.Fields = Put(@, f.Name, FieldSpecOf(f))] IN
             IF f.Unique \/ f.PrimaryKey
             THEN [nt |-> [nt1 EXCEPT !.Indexes = Put(@, f.Name, UniqueIndex(f.Name))],
                   err |-> ""]
             ELSE [nt |-> [nt1 EXCEPT !.Indexes = Del(@, f.Name)], err |-> ""]
    ELSE IF a.Type = "SET_PRIMARY_KEY" THEN setPrimaryKey(nt, a)
    ELSE [nt |-> nt, err |-> "unknown alter node action"]

\* A mutant of the loop of ApplyAlterNode: the actions are taken last to first
RECURSIVE alterNodeLoopBackwards(_, _, _, _)
alterNodeLoopBackwards(h, na, actions, i) ==
    IF i > Len(actions) THEN [heap |-> h, err |-> ""]
    ELSE LET r == alterNodeAction(h[na], actions[Len(actions) + 1 - i])
             h1 == [h EXCEPT ![na] = r.nt]
         IN IF r.err # "" THEN [heap |-> h1, err |-> r.err]
            ELSE alterNodeLoopBackwards(h1, na, actions, i + 1)

\* The loop of ApplyAlterNode: it writes through the pointer nt (address na)
RECURSIVE alterNodeLoop(_, _, _, _)
alterNodeLoop(h, na, actions, i) ==
    IF i > Len(actions) THEN [heap |-> h, err |-> ""]
    ELSE LET r == alterNodeAction(h[na], actions[i])
             h1 == [h EXCEPT ![na] = r.nt]
         IN IF r.err # "" THEN [heap |-> h1, err |-> r.err]
            ELSE alterNodeLoop(h1, na, actions, i + 1)

ApplyAlterNode(h, c, p) ==
    LET verr == validateAlterNode(h[c], p) IN
    IF verr # "" THEN Fail(h, verr)
    ELSE LET cl == Clone(h, c)
             r == alterNodeLoop(cl.heap, cl.heap[cl.out].Nodes[p.Name], p.Actions, 1)
         IN IF r.err # "" THEN Fail(r.heap, r.err)
            ELSE Ok([r.heap EXCEPT ![cl.out].Version = @ + 1], cl.out)

RECURSIVE validateAlterEdgeActions(_, _, _)
validateAlterEdgeActions(cat, actions, i) ==
    IF i > Len(actions) THEN ""
    ELSE LET a == actions[i] IN
         IF a.Type \in {"ADD_PROP", "MODIFY_PROP"}
         THEN IF a.Prop = <<>> THEN "prop required for action"
              ELSE IF a.Prop[1].Name = "" THEN "prop name required"
              ELSE IF a.Prop[1].Type.Base = "ENUM" /\ Len(a.Prop[1].Type.EnumVals) = 0
                   THEN "enum prop must have values"
              ELSE IF a.Prop[1].NotNull /\ a.Prop[1].DefaultRaw # <<>>
                      /\ EqualFoldNull(a.Prop[1].DefaultRaw[1])
                   THEN "prop NOT NULL but default null"
              ELSE validateAlterEdgeActions(cat, actions, i + 1)
         ELSE IF a.Type = "DROP_PROP"
         THEN IF a.PropName = "" THEN "prop name required for action"
              ELSE validateAlterEdgeActions(cat, actions, i + 1)
         ELSE IF a.Type = "CHANGE_ENDPOINT"
         THEN IF a.Endpoint \notin {"FROM", "TO"} THEN "endpoint must be FROM or TO"
              ELSE IF a.NewEndpoint = <<>> THEN "new endpoint required for CHANGE_ENDPOINT"
              ELSE IF a.NewEndpoint[1].Label = "" THEN "endpoint label required"
              ELSE IF ~Has(cat.Nodes, a.NewEndpoint[1].Label)
                   THEN "endpoint node type not found"
              ELSE validateAlterEdgeActions(cat, actions, i + 1)
         ELSE "unknown alter edge action"

validateAlterEdge(cat, p) ==
    IF p.Name = "" THEN "edge name required"
    ELSE IF ~Has(cat.Edges, p.Name) THEN "edge does not exist"
    ELSE IF Len(p.Actions) = 0 THEN "at least one action required"
    ELSE validateAlterEdgeActions(cat, p.Actions, 1)

\* One iteration of ApplyAlterEdge's loop on the EdgeType et; cat is the input catalog c
alterEdgeAction(cat, et, a) ==
    IF a.Type = "ADD_PROP" THEN
        IF Has(et.Props, a.Prop[1].Name) THEN [et |-> et, err |-> "prop already exists"]
        ELSE [et |-> [et EXCEPT !.Props = Put(@, a.Prop[1].Name, FieldSpecOf(a.Prop[1]))],
              err |-> ""]
    ELSE IF a.Type = "DROP_PROP" THEN
        IF ~Has(et.Props, a.PropName) THEN [et |-> et, err |-> "prop does not exist"]
        ELSE [et |-> [et EXCEPT !.Props = Del(@, a.PropName)], err |-> ""]
    ELSE IF a.Type = "MODIFY_PROP" THEN
        IF ~Has(et.Props, a.Prop[1].Name) THEN [et |-> et, err |-> "prop does not exist"]
        ELSE [et |-> [et EXCEPT !.Props = Put(@, a.Prop[1].Name, FieldSpecOf(a.Prop[1]))],
              err |-> ""]
    ELSE IF a.Type = "CHANGE_ENDPOINT" THEN
        IF a.Endpoint = "FROM" THEN
            IF ~Has(cat.Nodes, a.NewEndpoint[1].Label)
            THEN [et |-> et, err |-> "FROM node type not found"]
            ELSE [et |-> [et EXCEPT !.From = a.NewEndpoint[1]], err |-> ""]
        ELSE IF a.Endpoint = "TO" THEN
            IF ~Has(cat.Nodes, a.NewEndpoint[1].Label)
            THEN [et |-> et, err |-> "TO node type not found"]
            ELSE [et |-> [et EXCEPT !.To = a.NewEndpoint[1]], err |-> ""]
        ELSE [et |-> et, err |-> "invalid endpoint"]
    ELSE [et |-> et, err |-> "unknown alter edge action"]

RECURSIVE alterEdgeLoop(_, _, _, _, _)
alterEdgeLoop(h, c, ea, actions, i) ==
    IF i > Len(actions) THEN [heap |-> h, err |-> ""]
    ELSE LET r == alterEdgeAction(h[c], h[ea], actions[i])
             h1 == [h EXCEPT ![ea] = r.et]
         IN IF r.err # "" THEN [heap |-> h1, err |-> r.err]
            ELSE alterEdgeLoop(h1, c, ea, actions, i + 1)

ApplyAlterEdge(h, c, p) ==
    LET verr == validateAlterEdge(h[c], p) IN
    IF verr # "" THEN Fail(h, verr)
    ELSE LET cl == Clone(h, c)
             r == alterEdgeLoop(cl.heap, c, cl.heap[cl.out].Edges[p.Name], p.Actions, 1)
         IN IF r.err # "" THEN Fail(r.heap, r.err)
            ELSE Ok([r.heap EXCEPT ![cl.out].Version = @ + 1], cl.out)

\* A mutant of validateDropNode: only the FROM endpoint of an edge is looked at
validateDropNodeFromOnly(h, c, p) ==
    IF p.Name = "" THEN "node name required"
    ELSE IF ~Has(h[c].Nodes, p.Name) THEN "node does not exist"
    ELSE IF \E e \in DOMAIN h[c].Edges : h[h[c].Edges[e]].From.Label = p.Name
         THEN "cannot drop node: referenced by edge"
    ELSE ""

validateDropNode(h, c, p) ==
    IF p.Name = "" THEN "node name required"
    ELSE IF ~Has(h[c].Nodes, p.Name) THEN "node does not exist"
    ELSE IF \E e \in DOMAIN h[c].Edges :
                \/ h[h[c].Edges[e]].From.Label = p.Name
                \/ h[h[c].Edges[e]].To.Label = p.Name
         THEN "cannot drop node: referenced by edge"
    ELSE ""

ApplyDropNode(h, c, p) ==
    LET verr == validateDropNode(h, c, p) IN
    IF verr # "" THEN Fail(h, verr)
    ELSE LET cl == Clone(h, c)
         IN Ok([cl.heap EXCEPT ![cl.out].Nodes = Del(@, p.Name),
                               ![cl.out].Version = @ + 1], cl.out)

validateDropEdge(cat, p) ==
    IF p.Name = "" THEN "edge name required"
    ELSE IF ~Has(cat.Edges, p.Name) THEN "edge does not exist"
    ELSE ""

ApplyDropEdge(h, c, p) ==
    LET verr == validateDropEdge(h[c], p) IN
    IF verr # "" THEN Fail(h, verr)
    ELSE LET cl == Clone(h, c)
         IN Ok([cl.heap EXCEPT ![cl.out].Edges = Del(@, p.Name),
                               ![cl.out].Version = @ + 1], cl.out)

(***************************************************************************)
(* The DDL payloads the model draws from                                   *)
(***************************************************************************)
Field(name, type, pk, uniq, notnull, def) ==
    [Name |-> name, Type |-> type, PrimaryKey |-> pk, Unique |-> uniq,
     NotNull |-> notnull, DefaultRaw |-> def]
FPlain(name) == Field(name, TypeOf("INT"), FALSE, FALSE, FALSE, <<>>)
FNotNull(name) == Field(name, TypeOf("INT"), FALSE, FALSE, TRUE, <<>>)
FPK(name) == Field(name, TypeOf("INT"), TRUE, FALSE, FALSE, <<>>)
FUnique(name) == Field(name, TypeOf("STRING"), FALSE, TRUE, FALSE, <<>>)
FBlobPK(name) == Field(name, TypeOf("BLOB"), TRUE, FALSE, FALSE, <<>>)
FBlob(name) == Field(name, TypeOf("BLOB"), FALSE, FALSE, FALSE, <<>>)
FUniquePK(name) == Field(name, TypeOf("INT"), TRUE, TRUE, FALSE, <<>>)
FEnumNoVals(name) == Field(name, TypeEnum(<<>>), FALSE, FALSE, FALSE, <<>>)
FNullDefault(name) == Field(name, TypeOf("INT"), FALSE, FALSE, TRUE, <<"NULL">>)

Endpoint(label, card) == [Label |-> label, Card |-> card]

CreateNodePayloads ==
    {[Name |-> "A", Fields |-> <<FPK("f")>>],
     [Name |-> "A", Fields |-> <<FPlain("f"), FUnique("g")>>],
     [Name |-> "A", Fields |-> <<FUniquePK("f"), FBlob("h")>>],
     [Name |-> "B", Fields |-> <<FNotNull("f")>>],
     [Name |-> "B", Fields |-> <<FPK("f"), FPK("g")>>],
     [Name |-> "B", Fields |-> <<FBlobPK("f")>>],
     [Name |-> "B", Fields |-> <<FPlain("f"), FNullDefault("g")>>],
     [Name |-> "", Fields |-> <<>>]}

CreateEdgePayloads ==
    {[Name |-> "E", From |-> Endpoint("A", "ONE"), To |-> Endpoint("B", "MANY"),
      Props |-> <<>>],
     [Name |-> "E", From |-> Endpoint("A", "MANY"), To |-> Endpoint("A", "MANY"),
      Props |-> <<FPlain("g")>>],
     [Name |-> "E", From |-> Endpoint("A", "ONE"), To |-> Endpoint("A", "ONE"),
      Props |-> <<FPlain("g"), FEnumNoVals("f")>>]}

NodeAction(type, field, fieldName) == [Type |-> type, Field |-> field, FieldName |-> fieldName]
AlterNodePayloads ==
    {[Name |-> "A", Actions |-> <<NodeAction("ADD_FIELD", <<FUnique("g")>>, "")>>],
     [Name |-> "A", Actions |-> <<NodeAction("DROP_FIELD", <<>>, "f")>>],
     [Name |-> "A", Actions |-> <<NodeAction("MODIFY_FIELD", <<FPlain("g")>>, "")>>],
     [Name |-> "A", Actions |-> <<NodeAction("SET_PRIMARY_KEY", <<>>, "g")>>],
     [Name |-> "A", Actions |-> <<NodeAction("ADD_FIELD", <<FPK("g")>>, "")>>],
     [Name |-> "A", Actions |-> <<NodeAction("ADD_FIELD", <<FBlobPK("g")>>, "")>>],
     [Name |-> "A", Actions |-> <<NodeAction("MODIFY_FIELD", <<FPK("f")>>, "")>>],
     [Name |-> "A", Actions |-> <<NodeAction("MODIFY_FIELD", <<FBlobPK("f")>>, "")>>],
     [Name |-> "A", Actions |-> <<NodeAction("SET_PRIMARY_KEY", <<>>, "f")>>],
     [Name |-> "A", Actions |-> <<NodeAction("SET_PRIMARY_KEY", <<>>, "h")>>],
     [Name |-> "A", Actions |-> <<NodeAction("ADD_FIELD", <<FPlain("g")>>, ""),
                                  NodeAction("DROP_FIELD", <<>>, "f")>>],
     [Name |-> "A", Actions |-> <<NodeAction("ADD_FIELD", <<FPlain("g")>>, ""),
                                  NodeAction("SET_PRIMARY_KEY", <<>>, "g")>>],
     [Name |-> "B", Actions |-> <<>>]}

EdgeAction(type, prop, propName, endpoint, newEndpoint) ==
    [Type |-> type, Prop |-> prop, PropName |-> propName, Endpoint |-> endpoint,
     NewEndpoint |-> newEndpoint]
AlterEdgePayloads ==
    {[Name |-> "E", Actions |-> <<EdgeAction("ADD_PROP", <<FPlain("f")>>, "", "", <<>>)>>],
     [Name |-> "E", Actions |-> <<EdgeAction("DROP_PROP", <<>>, "g", "", <<>>)>>],
     [Name |-> "E", Actions |-> <<EdgeAction("MODIFY_PROP", <<FNotNull("g")>>, "", "", <<>>)>>],
     [Name |-> "E", Actions |-> <<EdgeAction("CHANGE_ENDPOINT", <<>>, "", "FROM",
                                             <<Endpoint("B", "ONE")>>)>>],
     [Name |-> "E", Actions |-> <<EdgeAction("ADD_PROP", <<FPlain("f")>>, "", "", <<>>),
                                  EdgeAction("CHANGE_ENDPOINT", <<>>, "", "TO",
                                             <<Endpoint("B", "ONE")>>)>>]}

DropNodePayloads == {[Name |-> "A"], [Name |-> "B"]}
DropEdgePayloads == {[Name |-> "E"]}

(***************************************************************************)
(* Apply* called directly, one call after another: the catalog passed to a *)
(* call is the one the previous successful call returned.                  *)
(***************************************************************************)
ApplyStart ==
    /\ heap = NewEmpty(EmptyHeap).heap
    /\ ain = NewEmpty(EmptyHeap).out
    /\ aout = 0
    /\ aerr = ""
    /\ apre = EmptyCatalogValue
    /\ asteps = 0

\* The commit log while nothing uses it
Goroutines == {"c1", "writer", "stopper"}
LogIdle ==
    /\ clFormat = "text"
    /\ clFile = <<>>
    /\ clFileOpen = TRUE
    /\ clBuf = [mem |-> <<>>, n |-> 0, err |-> FALSE]
    /\ clQueue = <<>>
    /\ clStarted = FALSE
    /\ clClosed = FALSE
    /\ clDone = FALSE
    /\ clMu = ""
    /\ clPc = [g \in Goroutines |-> "idle"]
    /\ clTodo = [g \in Goroutines |-> <<>>]
    /\ clLoc = [g \in Goroutines |-> -1]
    /\ clCur = [g \in Goroutines |-> 0]
    /\ clCalls = <<>>

\* The registry while nothing uses it
NoCall == [op |-> "none", err |-> "", before |-> 0, closed |-> EmptyCatalogValue]
RegIdle ==
    /\ cur = 0
    /\ ddlOffset = 0
    /\ ddlLog = <<>>
    /\ manifest = <<>>
    /\ snaps = EmptyMap
    /\ rlast = NoCall
    /\ rhist = <<>>

\* The server while nothing uses it
Conns == {1, 2}
IdleConn == [pc |-> "idle", cmd |-> <<>>, stmts |-> <<>>, mutated |-> FALSE, changed |-> FALSE]
SrvIdle ==
    /\ graph = [Nodes |-> EmptyMap, Edges |-> EmptyMap, NextID |-> 1]
    /\ srvPhase = "off"
    /\ conn = [c \in Conns |-> IdleConn]
    /\ srvHist = <<>>
    /\ replay = [todo |-> <<>>, stmts |-> <<>>, err |-> FALSE, base |-> 0]
    /\ srvSaved = [cat |-> EmptyCatalogValue,
                   graph |-> [Nodes |-> EmptyMap, Edges |-> EmptyMap, NextID |-> 1]]

\* The goroutines that call Registry.Apply and Current(), while there are none
Writers == {"w1", "w2"}
NoFrame ==
    [pc |-> "idle", ev |-> <<>>, old |-> 0, new |-> 0, off |-> 0, err |-> "", conc |-> FALSE]
NotHeld == [cat |-> 0, seen |-> EmptyCatalogValue]
WritersIdle ==
    /\ muW = ""
    /\ wr = [w \in Writers |-> NoFrame]
    /\ rd = NotHeld
    /\ calls = <<>>

\* The executor used on its own, while no ExecuteStatements call is made
NoBatch == [pc |-> "idle", stmts |-> <<>>, ran |-> <<>>, errs |-> <<>>, mutated |-> FALSE]
ExecIdle ==
    /\ ex = NoBatch
    /\ exhist = <<>>

\* The parser, while no script is parsed
NoParser == [pc |-> "none", toks |-> <<>>, pos |-> 0, out |-> <<>>, errs |-> <<>>, turns |-> 0]
ParserIdle == ps = NoParser

\* The file store used through the registry only: no direct AppendDDL call
NoAppend == [pc |-> "idle", ev |-> <<>>, off |-> 0, err |-> ""]
StoreIdle ==
    /\ fsMu = ""
    /\ ad = [g \in Writers |-> NoAppend]
    /\ adCalls = <<>>

\* The catalog the next call is given, and the heap once the garbage is collected
NextInput == IF aout # 0 THEN aout ELSE ain
LiveHeap == Collect(heap, {NextInput})

Called(r) ==
    /\ asteps < MaxApplies
    /\ heap' = r.heap
    /\ ain' = NextInput
    /\ aout' = r.out
    /\ aerr' = r.err
    /\ apre' = CatValue(heap, NextInput)
    /\ asteps' = asteps + 1
    /\ UNCHANGED <<wrVars, exVars, psVars, stVars, regVars, logVars, srvVars>>

CallCreateNode == \E p \in CreateNodePayloads : Called(ApplyCreateNode(LiveHeap, NextInput, p))
CallCreateEdge == \E p \in CreateEdgePayloads : Called(ApplyCreateEdge(LiveHeap, NextInput, p))
CallAlterNode == \E p \in AlterNodePayloads : Called(ApplyAlterNode(LiveHeap, NextInput, p))
CallAlterEdge == \E p \in AlterEdgePayloads : Called(ApplyAlterEdge(LiveHeap, NextInput, p))
CallDropNode == \E p \in DropNodePayloads : Called(ApplyDropNode(LiveHeap, NextInput, p))
CallDropEdge == \E p \in DropEdgePayloads : Called(ApplyDropEdge(LiveHeap, NextInput, p))

ApplyNext ==
    \/ CallCreateNode
    \/ CallCreateEdge
    \/ CallAlterNode
    \/ CallAlterEdge
    \/ CallDropNode
    \/ CallDropEdge

ApplyInit == ApplyStart /\ RegIdle /\ LogIdle /\ SrvIdle /\ WritersIdle /\ ExecIdle /\ ParserIdle /\ StoreIdle

SpecApply == ApplyInit /\ [][ApplyNext]_vars

\* C9: every Apply* call leaves the catalog it was given unchanged, and returns
\* either a new catalog whose version is the input version plus one, or an
\* error and no catalog.
C9_ApplyPure ==
    asteps > 0 =>
        /\ CatValue(heap, ain) = apre
        /\ \/ aerr = "" /\ aout # 0 /\ aout # ain /\ heap[aout].Version = apre.Version + 1
           \/ aerr # "" /\ aout = 0

\* A call that succeeded and returned a catalog that differs from its input
C9_Witness ==
    /\ asteps > 0 /\ aerr = "" /\ aout # 0
    /\ CatValue(heap, aout).Nodes # apre.Nodes
    /\ apre.Nodes # EmptyMap

\* The catalog the successful calls made so far have led to
Reached == CatValue(heap, NextInput)
Names(cat, n) ==
    \E e \in DOMAIN cat.Edges : cat.Edges[e].From.Label = n \/ cat.Edges[e].To.Label = n

\* C14: in every catalog reached from the empty one by successful Apply* calls,
\* the FROM and TO labels of every edge type name node types of the catalog; and
\* ApplyDropNode fails with 'referenced by edge' whenever some edge type names
\* the node as FROM or TO.
C14_ReferentialIntegrity ==
    /\ \A e \in DOMAIN Reached.Edges :
            /\ Has(Reached.Nodes, Reached.Edges[e].From.Label)
            /\ Has(Reached.Nodes, Reached.Edges[e].To.Label)
    /\ \A p \in DropNodePayloads :
            Names(Reached, p.Name) =>
                /\ ApplyDropNode(LiveHeap, NextInput, p).err = "cannot drop node: referenced by edge"
                /\ ApplyDropNode(LiveHeap, NextInput, p).out = 0

\* ApplyDropNode has just refused to drop a node type that an edge type names
C14_Witness ==
    /\ asteps = 3 /\ aout = 0
    /\ aerr = "cannot drop node: referenced by edge"
    /\ Has(Reached.Edges, "E")
    /\ Reached = apre

\* The node type named by an ALTER NODE payload, in the catalog reached
Altered(p) == Reached.Nodes[p.Name]
PKCount(p) == Cardinality({i \in DOMAIN p.Fields : p.Fields[i].PrimaryKey})
\* Payload p drops the primary key field its node type has in the catalog reached
DropsPK(p) ==
    /\ Has(Reached.Nodes, p.Name) /\ Altered(p).PK # ""
    /\ \E i \in DOMAIN p.Actions :
            /\ p.Actions[i].Type = "DROP_FIELD" /\ p.Actions[i].FieldName = Altered(p).PK
            /\ \A j \in 1..(i - 1) : p.Actions[j].Type # "SET_PRIMARY_KEY"
\* Payload p makes a field of non-scalar type the primary key
SetsNonScalarPK(p) ==
    /\ Has(Reached.Nodes, p.Name)
    /\ \/ /\ p.Actions[1].Type = "SET_PRIMARY_KEY"
          /\ Has(Altered(p).Fields, p.Actions[1].FieldName)
          /\ ~isScalarType(Altered(p).Fields[p.Actions[1].FieldName].Type)
       \/ /\ p.Actions[1].Type \in {"ADD_FIELD", "MODIFY_FIELD"}
          /\ p.Actions[1].Field[1].PrimaryKey
          /\ ~isScalarType(p.Actions[1].Field[1].Type)
Rejected(r) == r.err # "" /\ r.out = 0

\* C15: in every catalog reached by successful Apply* calls, the PK of each node
\* type is empty or names a field of the node type whose type is scalar; creating
\* a node with more than one PRIMARY KEY field, dropping the current primary key
\* field and making a non-scalar field the primary key are rejected.
C15_PrimaryKey ==
    /\ \A n \in DOMAIN Reached.Nodes :
            \/ Reached.Nodes[n].PK = ""
            \/ /\ Has(Reached.Nodes[n].Fields, Reached.Nodes[n].PK)
               /\ isScalarType(Reached.Nodes[n].Fields[Reached.Nodes[n].PK].Type)
    /\ \A p \in CreateNodePayloads :
            (PKCount(p) > 1 \/ \E i \in DOMAIN p.Fields :
                                    p.Fields[i].PrimaryKey /\ ~isScalarType(p.Fields[i].Type))
                => Rejected(ApplyCreateNode(LiveHeap, NextInput, p))
    /\ \A p \in AlterNodePayloads :
            (Len(p.Actions) > 0 /\ (DropsPK(p) \/ SetsNonScalarPK(p)))
                => Rejected(ApplyAlterNode(LiveHeap, NextInput, p))

\* ApplyAlterNode has just refused to drop the primary key field of A
C15_Witness ==
    /\ asteps > 1 /\ aout = 0
    /\ aerr = "cannot drop primary key field"
    /\ Has(Reached.Nodes, "A") /\ Reached.Nodes["A"].PK = "f"

\* C16: after any sequence of successful ApplyCreateNode and ApplyAlterNode
\* calls, every field of a node type that is unique or is the primary key has an
\* entry in Indexes for that field, with Unique = true.
C16_ConstraintsIndexed ==
    \A n \in DOMAIN Reached.Nodes :
        \A f \in DOMAIN Reached.Nodes[n].Fields :
            (Reached.Nodes[n].Fields[f].Unique \/ Reached.Nodes[n].PK = f) =>
                /\ Has(Reached.Nodes[n].Indexes, f)
                /\ Reached.Nodes[n].Indexes[f].Field = f
                /\ Reached.Nodes[n].Indexes[f].Unique

\* SET_PRIMARY_KEY has just moved the primary key of A from a unique field to
\* another field: both fields are indexed
C16_Witness ==
    /\ asteps > 1 /\ aerr = "" /\ aout # 0
    /\ Has(apre.Nodes, "A") /\ apre.Nodes["A"].PK = "f" /\ apre.Nodes["A"].Fields["f"].Unique
    /\ Has(Reached.Nodes, "A") /\ Reached.Nodes["A"].PK = "g"
    /\ DOMAIN Reached.Nodes["A"].Indexes = {"f", "g"}

\* The single-action ALTER NODE calls for the actions of a payload, made one
\* after the other from the first, each on the catalog the one before returned
RECURSIVE OneByOne(_, _, _, _)
OneByOne(h, c, p, i) ==
    IF i > Len(p.Actions) THEN Ok(h, c)
    ELSE LET r == ApplyAlterNode(h, c, [Name |-> p.Name, Actions |-> <<p.Actions[i]>>])
         IN IF r.err # "" THEN r ELSE OneByOne(Collect(r.heap, {r.out}), r.out, p, i + 1)

\* What a call with the actions of p does to the catalog reached: r is what it
\* returns, s what the single-action calls return
InListOrder(r, s) ==
    /\ r.err = "" <=> s.err = ""
    /\ r.err = "" =>
            CatValue(r.heap, r.out) =
                [CatValue(s.heap, s.out) EXCEPT !.Version = Reached.Version + 1]
    /\ r.err # "" =>
            /\ r.out = 0
            /\ \A a \in DOMAIN LiveHeap : LiveHeap[a] # Free => r.heap[a] = LiveHeap[a]

\* C33: ApplyAlterNode applies its actions in list order against the running
\* copy, so that a later action sees the effect of an earlier one: the call
\* succeeds exactly when the single-action calls made in that order all succeed,
\* and then returns the catalog they end with (at the input version plus one).
\* If any action fails, the call returns an error and no catalog, and every
\* catalog that existed before the call is as it was.
C33_AlterNodeInOrder ==
    \A p \in AlterNodePayloads :
        Len(p.Actions) > 0 =>
            InListOrder(ApplyAlterNode(LiveHeap, NextInput, p), OneByOne(LiveHeap, NextInput, p, 1))

\* ADD_FIELD g followed by SET_PRIMARY_KEY g in one call has just made the
\* field it added the primary key of A
C33_Witness ==
    /\ asteps > 1 /\ aerr = "" /\ aout # 0
    /\ Has(apre.Nodes, "A") /\ ~Has(apre.Nodes["A"].Fields, "g")
    /\ Has(Reached.Nodes, "A") /\ Reached.Nodes["A"].PK = "g"
    /\ Reached.Version = apre.Version + 1

(***************************************************************************)
(* encoding/json: what Marshal writes for a payload or a catalog and what  *)
(* Unmarshal builds from it.  A nil pointer is written as null; a pointer  *)
(* is written as the object it points to.                                  *)
(***************************************************************************)
JNull == [json |-> "null"]
jsonString(p) == IF p = <<>> THEN JNull ELSE [json |-> "string", s |-> p[1]]
stringOfJson(j) == IF j = JNull THEN <<>> ELSE <<j.s>>

RECURSIVE jsonType(_)
jsonType(t) ==
    [Base |-> t.Base,
     Elem |-> IF t.Elem = <<>> THEN JNull ELSE jsonType(t.Elem[1]),
     EnumVals |-> t.EnumVals]
RECURSIVE typeOfJson(_)
typeOfJson(j) ==
    [Base |-> j.Base,
     Elem |-> IF j.Elem = JNull THEN <<>> ELSE <<typeOfJson(j.Elem)>>,
     EnumVals |-> j.EnumVals]

jsonFieldPayload(f) ==
    [Name |-> f.Name, Type |-> jsonType(f.Type), PrimaryKey |-> f.PrimaryKey,
     Unique |-> f.Unique, NotNull |-> f.NotNull, DefaultRaw |-> jsonString(f.DefaultRaw)]
fieldPayloadOfJson(j) ==
    [Name |-> j.Name, Type |-> typeOfJson(j.Type), PrimaryKey |-> j.PrimaryKey,
     Unique |-> j.Unique, NotNull |-> j.NotNull, DefaultRaw |-> stringOfJson(j.DefaultRaw)]
jsonFieldPtr(p) == IF p = <<>> THEN JNull ELSE jsonFieldPayload(p[1])
fieldPtrOfJson(j) == IF j = JNull THEN <<>> ELSE <<fieldPayloadOfJson(j)>>
jsonEndpointPtr(p) == IF p = <<>> THEN JNull ELSE p[1]
endpointPtrOfJson(j) == IF j = JNull THEN <<>> ELSE <<j>>

DDLOps == {"CREATE_NODE", "CREATE_EDGE", "ALTER_NODE", "ALTER_EDGE", "DROP_NODE", "DROP_EDGE"}

\* json.Marshal of the payload struct of a DDL operation
jsonStmt(op, p) ==
    CASE op = "CREATE_NODE" ->
           [Name |-> p.Name, Fields |-> [i \in 1..Len(p.Fields) |-> jsonFieldPayload(p.Fields[i])]]
      [] op = "CREATE_EDGE" ->
           [Name |-> p.Name, From |-> p.From, To |-> p.To,
            Props |-> [i \in 1..Len(p.Props) |-> jsonFieldPayload(p.Props[i])]]
      [] op = "ALTER_NODE" ->
           [Name |-> p.Name,
            Actions |-> [i \in 1..Len(p.Actions) |->
                           [Type |-> p.Actions[i].Type,
                            Field |-> jsonFieldPtr(p.Actions[i].Field),
                            FieldName |-> p.Actions[i].FieldName]]]
      [] op = "ALTER_EDGE" ->
           [Name |-> p.Name,
            Actions |-> [i \in 1..Len(p.Actions) |->
                           [Type |-> p.Actions[i].Type,
                            Prop |-> jsonFieldPtr(p.Actions[i].Prop),
                            PropName |-> p.Actions[i].PropName,
                            Endpoint |-> p.Actions[i].Endpoint,
                            NewEndpoint |-> jsonEndpointPtr(p.Actions[i].NewEndpoint)]]]
      [] OTHER -> [Name |-> p.Name]

\* json.Unmarshal into the payload struct of a DDL operation
stmtOfJson(op, j) ==
    CASE op = "CREATE_NODE" ->
           [Name |-> j.Name, Fields |-> [i \in 1..Len(j.Fields) |-> fieldPayloadOfJson(j.Fields[i])]]
      [] op = "CREATE_EDGE" ->
           [Name |-> j.Name, From |-> j.From, To |-> j.To,
            Props |-> [i \in 1..Len(j.Props) |-> fieldPayloadOfJson(j.Props[i])]]
      [] op = "ALTER_NODE" ->
           [Name |-> j.Name,
            Actions |-> [i \in 1..Len(j.Actions) |->
                           [Type |-> j.Actions[i].Type,
                            Field |-> fieldPtrOfJson(j.Actions[i].Field),
                            FieldName |-> j.Actions[i].FieldName]]]
      [] op = "ALTER_EDGE" ->
           [Name |-> j.Name,
            Actions |-> [i \in 1..Len(j.Actions) |->
                           [Type |-> j.Actions[i].Type,
                            Prop |-> fieldPtrOfJson(j.Actions[i].Prop),
                            PropName |-> j.Actions[i].PropName,
                            Endpoint |-> j.Actions[i].Endpoint,
                            NewEndpoint |-> endpointPtrOfJson(j.Actions[i].NewEndpoint)]]]
      [] OTHER -> [Name |-> j.Name]

\* The zero value of the payload struct of a DDL operation
ZeroPayload(op) ==
    CASE op = "CREATE_NODE" -> [Name |-> "", Fields |-> <<>>]
      [] op = "CREATE_EDGE" -> [Name |-> "", From |-> Endpoint("", "ONE"),
                                To |-> Endpoint("", "ONE"), Props |-> <<>>]
      [] op \in {"ALTER_NODE", "ALTER_EDGE"} -> [Name |-> "", Actions |-> <<>>]
      [] OTHER -> [Name |-> ""]

\* decode(src, dst): a nil payload is an error, anything else goes through JSON.
\* A DDLEvent holds its payload as <<p>>, or <<>> for nil.
decode(op, stmt) ==
    IF stmt = <<>> THEN [err |-> "nil DDL payload", p |-> ZeroPayload(op)]
    ELSE [err |-> "", p |-> stmtOfJson(op, jsonStmt(op, stmt[1]))]

\* A line of the DDL log: json.Marshal(ev), and json.Unmarshal of it into a DDLEvent
\* (whose Stmt is then the generic JSON value)
jsonEvent(ev) ==
    [Op |-> ev.Op,
     Stmt |-> IF ev.Stmt = <<>> THEN JNull ELSE jsonStmt(ev.Op, ev.Stmt[1])]
eventOfJson(line) ==
    [Op |-> line.Op,
     Stmt |-> IF line.Stmt = JNull THEN <<>> ELSE <<stmtOfJson(line.Op, line.Stmt)>>]

\* json.MarshalIndent(cat) and json.Unmarshal(b, &cat)
jsonFieldSpec(v) ==
    [Name |-> v.Name, Type |-> jsonType(v.Type), Unique |-> v.Unique,
     NotNull |-> v.NotNull, DefaultRaw |-> jsonString(v.DefaultRaw)]
fieldSpecOfJson(j) ==
    [Name |-> j.Name, Type |-> typeOfJson(j.Type), Unique |-> j.Unique,
     NotNull |-> j.NotNull, DefaultRaw |-> stringOfJson(j.DefaultRaw)]
jsonCatalog(h, c) ==
    LET v == CatValue(h, c) IN
    [Version |-> v.Version,
     Nodes |-> [n \in DOMAIN v.Nodes |->
                  [Name |-> v.Nodes[n].Name,
                   Fields |-> [k \in DOMAIN v.Nodes[n].Fields |-> jsonFieldSpec(v.Nodes[n].Fields[k])],
                   PK |-> v.Nodes[n].PK,
                   Indexes |-> v.Nodes[n].Indexes]],
     Edges |-> [e \in DOMAIN v.Edges |->
                  [Name |-> v.Edges[e].Name, From |-> v.Edges[e].From, To |-> v.Edges[e].To,
                   Props |-> [k \in DOMAIN v.Edges[e].Props |-> jsonFieldSpec(v.Edges[e].Props[k])]]]]
catalogOfJson(h, j) ==
    LET ns == NameSeq(DOMAIN j.Nodes, NodeOrder)
        es == NameSeq(DOMAIN j.Edges, EdgeOrder)
        r1 == StoreAll(h, [i \in 1..Len(ns) |->
                 [kind |-> "node", Name |-> j.Nodes[ns[i]].Name,
                  Fields |-> [k \in DOMAIN j.Nodes[ns[i]].Fields |->
                                fieldSpecOfJson(j.Nodes[ns[i]].Fields[k])],
                  PK |-> j.Nodes[ns[i]].PK,
                  Indexes |-> j.Nodes[ns[i]].Indexes]])
        r2 == StoreAll(r1.heap, [i \in 1..Len(es) |->
                 [kind |-> "edge", Name |-> j.Edges[es[i]].Name,
                  From |-> j.Edges[es[i]].From, To |-> j.Edges[es[i]].To,
                  Props |-> [k \in DOMAIN j.Edges[es[i]].Props |->
                               fieldSpecOfJson(j.Edges[es[i]].Props[k])]]])
        a == Alloc(r2.heap)
    IN [heap |-> [r2.heap EXCEPT ![a] =
                    [kind |-> "catalog", Version |-> j.Version,
                     Nodes |-> [n \in DOMAIN j.Nodes |-> r1.addrs[IndexOf(ns, n)]],
                     Edges |-> [e \in DOMAIN j.Edges |-> r2.addrs[IndexOf(es, e)]]]],
        out |-> a]

(***************************************************************************)
(* fileStore: the DDL log, the snapshots and the manifest of one directory *)
(***************************************************************************)
\* A line that is not valid JSON
Garbage == [json |-> "garbage"]

ZeroManifest == [Snapshot |-> <<>>, Version |-> 0, DDLOffset |-> 0]

\* The switch on ev.Op in Load and in Registry.Apply
applyPayload(h, c, op, p) ==
    CASE op = "CREATE_NODE" -> ApplyCreateNode(h, c, p)
      [] op = "CREATE_EDGE" -> ApplyCreateEdge(h, c, p)
      [] op = "ALTER_NODE" -> ApplyAlterNode(h, c, p)
      [] op = "ALTER_EDGE" -> ApplyAlterEdge(h, c, p)
      [] op = "DROP_NODE" -> ApplyDropNode(h, c, p)
      [] op = "DROP_EDGE" -> ApplyDropEdge(h, c, p)

\* Load's loop over the lines of the DDL log; pos lines have been read.
\* "cat, err = ApplyX(cat, p)" leaves cat nil when the Apply fails.
RECURSIVE loadLoop(_, _, _, _, _)
loadApplied(r, lines, pos, skip) ==
    IF r.err # "" THEN [heap |-> r.heap, cat |-> 0, pos |-> pos + 1]
    ELSE loadLoop(r.heap, r.out, lines, pos + 1, skip)
loadLine(h, cat, ev, lines, pos, skip) ==
    IF ev.Op \notin DDLOps THEN [heap |-> h, cat |-> cat, pos |-> pos + 1]
    ELSE loadApplied(applyPayload(h, cat, ev.Op, decode(ev.Op, ev.Stmt).p), lines, pos, skip)
loadLoop(h, cat, lines, pos, skip) ==
    IF pos = Len(lines) THEN [heap |-> h, cat |-> cat, pos |-> pos]
    ELSE IF pos + 1 <= skip THEN loadLoop(h, cat, lines, pos + 1, skip)
    ELSE IF lines[pos + 1] = Garbage THEN [heap |-> h, cat |-> cat, pos |-> pos + 1]
    ELSE loadLine(h, cat, eventOfJson(lines[pos + 1]), lines, pos, skip)

\* (fs *fileStore) Load()
loadReturn(r) == [heap |-> r.heap, cat |-> r.cat, off |-> r.pos, err |-> ""]
loadFrom(s, lines, skip) == loadReturn(loadLoop(s.heap, s.out, lines, 0, skip))
loadManifest(h, m, sn, lines) ==
    IF m.Snapshot # <<>> /\ ~Has(sn, m.Snapshot[1])
    THEN [heap |-> h, cat |-> 0, off |-> 0, err |-> "catalog: read snapshot"]
    ELSE IF m.Snapshot # <<>>
         THEN loadFrom(catalogOfJson(h, sn[m.Snapshot[1]]), lines, m.DDLOffset)
         ELSE loadFrom(NewEmpty(h), lines, m.DDLOffset)
Load(h, mf, sn, lines) ==
    loadManifest(h, IF mf = <<>> THEN ZeroManifest ELSE mf[1], sn, lines)

\* countLines(path)
countLines(lines) == Len(lines)

\* (fs *fileStore) AppendDDL(ev): the write can fail before the line is written
\* ("write") or after it, in Sync ("sync")
AppendDDL(lines, ev, fault) ==
    IF fault = "write" THEN [lines |-> lines, off |-> 0, err |-> "write failed"]
    ELSE IF fault = "sync"
         THEN [lines |-> Append(lines, jsonEvent(ev)), off |-> 0, err |-> "sync failed"]
         ELSE [lines |-> Append(lines, jsonEvent(ev)),
               off |-> countLines(Append(lines, jsonEvent(ev))), err |-> ""]

\* The snapshot file UpdateManifest finds: the last directory entry named
\* catalog-snap-<version>.json, entries being sorted by name
LatestSnapshot(sn) ==
    IF DOMAIN sn = {} THEN <<>>
    ELSE <<CHOOSE v \in DOMAIN sn : \A w \in DOMAIN sn : w <= v>>

\* (fs *fileStore) UpdateManifest(catVersion, ddlOffset)
UpdateManifest(mf, sn, catVersion, off, fault) ==
    IF fault = "manifest" THEN [manifest |-> mf, err |-> "manifest write failed"]
    ELSE [manifest |-> <<[Snapshot |-> LatestSnapshot(sn), Version |-> catVersion,
                          DDLOffset |-> off]>>,
          err |-> ""]

\* (fs *fileStore) Snapshot(cat): writes the file, then UpdateManifest(cat.Version, 0)
Snapshot(h, c, mf, sn, fault) ==
    IF fault = "write" THEN [snaps |-> sn, manifest |-> mf, err |-> "write failed"]
    ELSE LET sn2 == Put(sn, h[c].Version, jsonCatalog(h, c))
             u == UpdateManifest(mf, sn2, h[c].Version, 0, fault)
         IN [snaps |-> sn2, manifest |-> u.manifest, err |-> u.err]

(***************************************************************************)
(* Registry over a file store.  A call is one step: Apply runs under muW   *)
(* from beginning to end.  I/O failures are inputs of the call.            *)
(***************************************************************************)
MaxRegOps == 4
MaxFaults == 1
Faults == {"none", "write", "sync", "manifest"}

\* The DDL events submitted to the registry: well-formed ones, one with a nil
\* payload and one with an operation the registry does not know
Event(op, p) == [Op |-> op, Stmt |-> <<p>>]
RegistryEvents ==
    {Event("CREATE_NODE", [Name |-> "A", Fields |-> <<FPK("f")>>]),
     Event("CREATE_NODE", [Name |-> "B", Fields |-> <<>>]),
     Event("CREATE_EDGE", [Name |-> "E", From |-> Endpoint("A", "ONE"),
                           To |-> Endpoint("B", "MANY"), Props |-> <<>>]),
     Event("ALTER_NODE", [Name |-> "A",
                          Actions |-> <<NodeAction("ADD_FIELD", <<FUnique("g")>>, "")>>]),
     Event("DROP_NODE", [Name |-> "A"]),
     Event("DROP_EDGE", [Name |-> "E"]),
     [Op |-> "CREATE_NODE", Stmt |-> <<>>],
     Event("TRUNCATE", [Name |-> "A"])}

FaultCount(h) == Cardinality({i \in DOMAIN h : h[i] \in {"apply fault", "snapshot fault"}})

\* Open(store) on a directory whose files are mf, sn, lines, in a new process
openLoaded(l) ==
    IF l.err # "" THEN [heap |-> l.heap, cur |-> 0, off |-> 0, err |-> l.err]
    ELSE IF l.cat = 0
         THEN [heap |-> NewEmpty(l.heap).heap, cur |-> NewEmpty(l.heap).out,
               off |-> l.off, err |-> ""]
         ELSE [heap |-> l.heap, cur |-> l.cat, off |-> l.off, err |-> ""]
Open(mf, sn, lines) == openLoaded(Load(EmptyHeap, mf, sn, lines))

Opened(o) ==
    /\ heap = o.heap
    /\ cur = o.cur
    /\ ddlOffset = o.off
RegistryStart ==
    /\ Opened(Open(<<>>, EmptyMap, <<>>))
    /\ ddlLog = <<>>
    /\ manifest = <<>>
    /\ snaps = EmptyMap
    /\ rlast = NoCall
    /\ rhist = <<>>

\* Registry.Apply step 1: decode the payload and compute the new catalog
registryCompute(h, c, ev) ==
    IF ev.Op \notin DDLOps THEN Fail(h, "unsupported DDL op")
    ELSE IF ev.Stmt = <<>> THEN Fail(h, decode(ev.Op, ev.Stmt).err)
    ELSE applyPayload(h, c, ev.Op, decode(ev.Op, ev.Stmt).p)

\* A mutant of Registry.Apply: the new catalog is published before AppendDDL is
\* known to have succeeded
registryPersistPublishFirst(r, a, ev, fault) ==
    IF r.err # ""
    THEN [heap |-> r.heap, cur |-> cur, off |-> ddlOffset, lines |-> ddlLog,
          manifest |-> manifest, err |-> r.err, tag |-> "apply rejected"]
    ELSE IF a.err # ""
    THEN [heap |-> r.heap, cur |-> r.out, off |-> ddlOffset, lines |-> a.lines,
          manifest |-> manifest, err |-> a.err, tag |-> "apply fault"]
    ELSE [heap |-> r.heap, cur |-> r.out, off |-> a.off, lines |-> a.lines,
          manifest |-> UpdateManifest(manifest, snaps, r.heap[r.out].Version, a.off, fault).manifest,
          err |-> UpdateManifest(manifest, snaps, r.heap[r.out].Version, a.off, fault).err,
          tag |-> IF fault = "manifest" THEN "apply fault" ELSE "apply"]

\* A mutant of Registry.Apply: the event is appended to the DDL log before the
\* result of validation is looked at
registryPersistLogFirst(r, a, ev, fault) ==
    IF r.err # ""
    THEN [heap |-> r.heap, cur |-> cur, off |-> ddlOffset, lines |-> a.lines,
          manifest |-> manifest, err |-> r.err, tag |-> "apply rejected"]
    ELSE IF a.err # ""
    THEN [heap |-> r.heap, cur |-> cur, off |-> ddlOffset, lines |-> a.lines,
          manifest |-> manifest, err |-> a.err, tag |-> "apply fault"]
    ELSE [heap |-> r.heap, cur |-> r.out, off |-> a.off, lines |-> a.lines,
          manifest |-> UpdateManifest(manifest, snaps, r.heap[r.out].Version, a.off, fault).manifest,
          err |-> UpdateManifest(manifest, snaps, r.heap[r.out].Version, a.off, fault).err,
          tag |-> IF fault = "manifest" THEN "apply fault" ELSE "apply"]

\* A mutant of Registry.Apply: UpdateManifest is called before the new catalog
\* is published, and its failure returns without publishing
registryPersistManifestFirst(r, a, ev, fault) ==
    IF r.err # ""
    THEN [heap |-> r.heap, cur |-> cur, off |-> ddlOffset, lines |-> ddlLog,
          manifest |-> manifest, err |-> r.err, tag |-> "apply rejected"]
    ELSE IF a.err # ""
    THEN [heap |-> r.heap, cur |-> cur, off |-> ddlOffset, lines |-> a.lines,
          manifest |-> manifest, err |-> a.err, tag |-> "apply fault"]
    ELSE IF fault = "manifest"
    THEN [heap |-> r.heap, cur |-> cur, off |-> ddlOffset, lines |-> a.lines,
          manifest |-> manifest, err |-> "manifest write failed", tag |-> "apply fault"]
    ELSE [heap |-> r.heap, cur |-> r.out, off |-> a.off, lines |-> a.lines,
          manifest |-> UpdateManifest(manifest, snaps, r.heap[r.out].Version, a.off, fault).manifest,
          err |-> "", tag |-> "apply"]

\* Registry.Apply steps 2 to 4, given the result r of step 1 and the result a
\* of AppendDDL: persist, publish, UpdateManifest
registryPersist(r, a, ev, fault) ==
    IF r.err # ""
    THEN [heap |-> r.heap, cur |-> cur, off |-> ddlOffset, lines |-> ddlLog,
          manifest |-> manifest, err |-> r.err, tag |-> "apply rejected"]
    ELSE IF a.err # ""
    THEN [heap |-> r.heap, cur |-> cur, off |-> ddlOffset, lines |-> a.lines,
          manifest |-> manifest, err |-> a.err, tag |-> "apply fault"]
    ELSE [heap |-> r.heap, cur |-> r.out, off |-> a.off, lines |-> a.lines,
          manifest |-> UpdateManifest(manifest, snaps, r.heap[r.out].Version, a.off, fault).manifest,
          err |-> UpdateManifest(manifest, snaps, r.heap[r.out].Version, a.off, fault).err,
          tag |-> IF fault = "manifest" THEN "apply fault" ELSE "apply"]

RegistryApplyResult(ev, fault) ==
    registryPersist(registryCompute(heap, cur, ev), AppendDDL(ddlLog, ev, fault), ev, fault)

\* (r *Registry) Apply(ev)
RegistryApplied(res) ==
    /\ cur # 0
    /\ Len(rhist) < MaxRegOps
    /\ res.tag = "apply fault" => FaultCount(rhist) < MaxFaults
    /\ heap' = Collect(res.heap, {res.cur})
    /\ cur' = res.cur
    /\ ddlOffset' = res.off
    /\ ddlLog' = res.lines
    /\ manifest' = res.manifest
    /\ UNCHANGED snaps
    /\ rlast' = [op |-> "apply", err |-> res.err, before |-> heap[cur].Version,
                 closed |-> EmptyCatalogValue]
    /\ rhist' = Append(rhist, res.tag)
    /\ UNCHANGED <<applyVars, wrVars, exVars, psVars, stVars, logVars, srvVars>>
RegistryApply ==
    \E ev \in RegistryEvents, fault \in Faults : RegistryApplied(RegistryApplyResult(ev, fault))

\* (r *Registry) Snapshot()
RegistrySnapshotted(res) ==
    /\ cur # 0
    /\ Len(rhist) < MaxRegOps
    /\ res.err # "" => FaultCount(rhist) < MaxFaults
    /\ snaps' = res.snaps
    /\ manifest' = res.manifest
    /\ rlast' = [op |-> "snapshot", err |-> res.err, before |-> heap[cur].Version,
                 closed |-> EmptyCatalogValue]
    /\ rhist' = Append(rhist, IF res.err = "" THEN "snapshot" ELSE "snapshot fault")
    /\ UNCHANGED <<heap, cur, ddlOffset, ddlLog, applyVars, wrVars, exVars, psVars, stVars, logVars, srvVars>>
RegistrySnapshot ==
    \E fault \in Faults \ {"sync"} :
        RegistrySnapshotted(Snapshot(heap, cur, manifest, snaps, fault))

\* The process ends and a new one opens the registry on the same directory
Reopened(res) ==
    /\ cur # 0
    /\ Len(rhist) < MaxRegOps
    /\ heap' = res.heap
    /\ cur' = res.cur
    /\ ddlOffset' = res.off
    /\ rlast' = [op |-> "open", err |-> res.err, before |-> heap[cur].Version,
                 closed |-> CatValue(heap, cur)]
    /\ rhist' = Append(rhist, IF res.err = "" THEN "open" ELSE "open failed")
    /\ UNCHANGED <<ddlLog, manifest, snaps, applyVars, wrVars, exVars, psVars, stVars, logVars, srvVars>>
Reopen == Reopened(Open(manifest, snaps, ddlLog))

\* A line that is not JSON is appended to the DDL file from outside the registry
Corrupt ==
    /\ cur # 0
    /\ Len(rhist) < MaxRegOps
    /\ Garbage \notin Range(ddlLog)
    /\ ddlLog' = Append(ddlLog, Garbage)
    /\ rlast' = [op |-> "corrupt", err |-> "", before |-> heap[cur].Version,
                 closed |-> EmptyCatalogValue]
    /\ rhist' = Append(rhist, "corrupt")
    /\ UNCHANGED <<heap, cur, ddlOffset, manifest, snaps, applyVars, wrVars, exVars, psVars, stVars, logVars, srvVars>>

RegistryNext ==
    \/ RegistryApply
    \/ RegistrySnapshot
    \/ Reopen
    \/ Corrupt

ApplyIdle ==
    /\ ain = 0
    /\ aout = 0
    /\ aerr = ""
    /\ apre = EmptyCatalogValue
    /\ asteps = 0

RegistryInit == RegistryStart /\ ApplyIdle /\ LogIdle /\ SrvIdle /\ WritersIdle /\ ExecIdle /\ ParserIdle /\ StoreIdle

SpecRegistry == RegistryInit /\ [][RegistryNext]_vars

\* The calls made so far are k successful Applies and then a reopening
OnlyApplies(k) == k >= 1 /\ \A i \in 1..k : rhist[i] = "apply"
ReopenedLast == Len(rhist) >= 2 /\ rhist[Len(rhist)] = "open" /\ rlast.op = "open"
ReopenedEqual == rlast.err = "" /\ cur # 0 /\ CatValue(heap, cur) = rlast.closed

\* C2: after successful Registry.Apply calls and no snapshot, re-opening the
\* registry on the directory publishes a catalog equal to the last one published
\* before closing (version, node types, edge types).
C2_ReopenRestores ==
    (ReopenedLast /\ OnlyApplies(Len(rhist) - 1)) => ReopenedEqual

\* C3: after one or more successful Applies, a Snapshot and possibly further
\* successful Applies, re-opening the registry yields a catalog equal to the
\* last published one.
C3_ReopenAfterSnapshot ==
    (/\ ReopenedLast
     /\ \E k \in 2..(Len(rhist) - 1) :
            /\ OnlyApplies(k - 1)
            /\ rhist[k] = "snapshot"
            /\ \A i \in (k + 1)..(Len(rhist) - 1) : rhist[i] = "apply")
        => ReopenedEqual

\* C10 as stated: the published version goes up by exactly 1 in an Apply that
\* returns success and stays the same in an Apply that returns an error.
C10_VersionAsStated ==
    rlast.op = "apply" =>
        heap[cur].Version = IF rlast.err = "" THEN rlast.before + 1 ELSE rlast.before

\* C10 (amended): the published version goes up by exactly 1 in an Apply that
\* returns success; it stays the same in an Apply that fails in validation or in
\* AppendDDL; in an Apply that fails in UpdateManifest it has gone up by 1 although
\* the call returns an error.
C10_VersionPerApply ==
    rlast.op = "apply" =>
        heap[cur].Version =
            IF rlast.err \in {"", "manifest write failed"} THEN rlast.before + 1
            ELSE rlast.before

\* An Apply on a non-empty catalog failed in UpdateManifest after publishing
C10_Witness ==
    /\ rlast.op = "apply" /\ rlast.err = "manifest write failed"
    /\ rlast.before > 0
    /\ heap[cur].Version = rlast.before + 1
    /\ Len(ddlLog) = ddlOffset

\* The step is a Registry.Apply call that returned tag t
ApplyReturned(t) == Len(rhist') = Len(rhist) + 1 /\ rhist'[Len(rhist')] = t

\* C11: an Apply that fails in validation (unsupported op and nil payload
\* included) or because AppendDDL returned an error leaves Current() the catalog
\* it was before the call; a validation failure appends no event to the DDL log.
C11_FailedApplyLeavesCurrent ==
    [][/\ ApplyReturned("apply rejected") =>
            /\ cur' = cur
            /\ CatValue(heap', cur') = CatValue(heap, cur)
            /\ ddlLog' = ddlLog
       /\ (ApplyReturned("apply fault") /\ rlast'.err \in {"write failed", "sync failed"}) =>
            /\ cur' = cur
            /\ CatValue(heap', cur') = CatValue(heap, cur)]_vars

\* After a successful Apply, one Apply was rejected in validation and the last
\* one failed in AppendDDL's sync, which left its line in the file
C11_Witness ==
    /\ Len(rhist) = 3
    /\ rhist[1] = "apply" /\ rhist[2] = "apply rejected" /\ rhist[3] = "apply fault"
    /\ rlast.err = "sync failed"
    /\ heap[cur].Version = 1
    /\ Len(ddlLog) = 2

\* The catalog value Apply* computes from the published catalog for event ev
NewCatalog(ev) ==
    CatValue(registryCompute(heap, cur, ev).heap, registryCompute(heap, cur, ev).out)

\* C13: an Apply in which UpdateManifest fails returns that error, while its
\* event stays appended to the DDL log and Current() returns the new catalog,
\* whose version is one more than before.
C13_ManifestFailurePublishes ==
    [][(ApplyReturned("apply fault") /\ rlast'.err = "manifest write failed") =>
        \E ev \in RegistryEvents :
            /\ registryCompute(heap, cur, ev).err = ""
            /\ ddlLog' = Append(ddlLog, jsonEvent(ev))
            /\ CatValue(heap', cur') = NewCatalog(ev)
            /\ heap'[cur'].Version = heap[cur].Version + 1]_vars

\* The second Apply failed in UpdateManifest: the manifest still names version
\* 1 while the published catalog has version 2 and the log has both events
C13_Witness ==
    /\ rhist = <<"apply", "apply fault">>
    /\ rlast.err = "manifest write failed"
    /\ heap[cur].Version = 2
    /\ Len(ddlLog) = 2
    /\ manifest # <<>> /\ manifest[1].Version = 1

\* The catalog Load starts from and the number of lines it skips, as the
\* manifest on disk says
LoadBase ==
    IF manifest # <<>> /\ manifest[1].Snapshot # <<>>
    THEN catalogOfJson(EmptyHeap, snaps[manifest[1].Snapshot[1]])
    ELSE NewEmpty(EmptyHeap)
LoadSkip == IF manifest = <<>> THEN 0 ELSE manifest[1].DDLOffset

\* The catalog built from the lines i .. k-1 of the DDL log on top of c, or an
\* error when one of them is malformed or its Apply fails
RECURSIVE builtBefore(_, _, _, _)
builtNext(r, i, k) == IF r.err # "" THEN r ELSE builtBefore(r.heap, r.out, i + 1, k)
builtBefore(h, c, i, k) ==
    IF i >= k THEN Ok(h, c)
    ELSE IF ddlLog[i] = Garbage THEN Fail(h, "malformed JSON")
    ELSE builtNext(registryCompute(h, c, eventOfJson(ddlLog[i])), i, k)
BuiltBefore(k) == builtBefore(LoadBase.heap, LoadBase.out, LoadSkip + 1, k)
BadLines == {k \in (LoadSkip + 1)..Len(ddlLog) : BuiltBefore(k + 1).err # ""}
FirstBad == CHOOSE k \in BadLines : \A j \in BadLines : k <= j

\* C23: if line k of the DDL log, after the skipped prefix, is malformed JSON or
\* its Apply fails, Load stops there and returns without error the catalog built
\* from the lines before k and the offset k; a registry opened on it publishes
\* that catalog.
C23_LoadStopsAtBadLine ==
    (rlast.op = "open" /\ BadLines # {}) =>
        /\ rlast.err = ""
        /\ CatValue(heap, cur) = CatValue(BuiltBefore(FirstBad).heap, BuiltBefore(FirstBad).out)
        /\ ddlOffset = FirstBad

\* C23 for a malformed line only
LoadStopsAtMalformed ==
    (BadLines # {} /\ ddlLog[FirstBad] = Garbage) => C23_LoadStopsAtBadLine

(***************************************************************************)
(* Registry.Apply called by several goroutines while a reader calls        *)
(* Current().  Here Apply is the sequence of its steps: Lock, compute,     *)
(* AppendDDL, publish, UpdateManifest, and the deferred Unlock.            *)
(***************************************************************************)
MaxCalls == 2

IOErrors == {"write failed", "sync failed", "manifest write failed"}
InApply == {w \in Writers : wr[w].pc # "idle"}
IOFaults ==
    Cardinality({i \in DOMAIN calls : calls[i].err \in IOErrors})
        + Cardinality({w \in Writers : wr[w].err \in IOErrors})

\* What the goroutines hold: the garbage collector frees the rest
Roots(c, frames, held) ==
    {c, held.cat} \cup {frames[w].old : w \in Writers} \cup {frames[w].new : w \in Writers}

WritersStart ==
    /\ Opened(Open(<<>>, EmptyMap, <<>>))
    /\ ddlLog = <<>>
    /\ manifest = <<>>
    /\ snaps = EmptyMap
    /\ rlast = NoCall
    /\ rhist = <<>>
    /\ WritersIdle
    /\ ExecIdle
    /\ ParserIdle /\ StoreIdle

\* A goroutine calls Apply(ev); conc tells whether another call is in progress
ApplyCall(w) ==
    /\ wr[w].pc = "idle"
    /\ Len(calls) + Cardinality(InApply) < MaxCalls
    /\ wr' = [wr EXCEPT ![w] = [NoFrame EXCEPT !.pc = "lock", !.conc = InApply # {}]]
    /\ UNCHANGED <<heap, regVars, muW, rd, calls, applyVars, logVars, srvVars, exVars, psVars, stVars>>

\* A mutant of r.muW.Lock(): it does not wait for the holder
LockNoWait(w) ==
    /\ wr[w].pc = "lock"
    /\ muW' = w
    /\ wr' = [wr EXCEPT ![w].pc = "compute"]
    /\ UNCHANGED <<heap, regVars, rd, calls, applyVars, logVars, srvVars, exVars, psVars, stVars>>

\* r.muW.Lock()
Lock(w) ==
    /\ wr[w].pc = "lock"
    /\ muW = ""
    /\ muW' = w
    /\ wr' = [wr EXCEPT ![w].pc = "compute"]
    /\ UNCHANGED <<heap, regVars, rd, calls, applyVars, logVars, srvVars, exVars, psVars, stVars>>

\* The frame after step 1: old := r.cur.Load(), and newCat or the error
computed(f, ev, r) ==
    [f EXCEPT !.ev = <<ev>>, !.old = cur, !.new = r.out, !.err = r.err,
              !.pc = IF r.err # "" THEN "unlock" ELSE "append"]

\* A mutant of step 1: the new catalog is stored in r.cur as soon as it is computed
ComputedAndPublished(w, ev, r) ==
    /\ wr[w].pc = "compute"
    /\ wr' = [wr EXCEPT ![w] = computed(@, ev, r)]
    /\ cur' = IF r.err = "" THEN r.out ELSE cur
    /\ heap' = Collect(r.heap, Roots(cur', wr', rd))
    /\ UNCHANGED <<ddlOffset, ddlLog, manifest, snaps, rlast, rhist, muW, rd, calls,
                   applyVars, logVars, srvVars, exVars, psVars, stVars>>

\* Step 1 of Apply(ev): load the current catalog, decode, and Apply* on it
Computed(w, ev, r) ==
    /\ wr[w].pc = "compute"
    /\ wr' = [wr EXCEPT ![w] = computed(@, ev, r)]
    /\ heap' = Collect(r.heap, Roots(cur, wr', rd))
    /\ UNCHANGED <<regVars, muW, rd, calls, applyVars, logVars, srvVars, exVars, psVars, stVars>>
Compute(w) == \E ev \in RegistryEvents : Computed(w, ev, registryCompute(heap, cur, ev))

\* Step 2: r.store.AppendDDL(ev); a is its result
Appended(w, a) ==
    /\ wr[w].pc = "append"
    /\ a.err # "" => IOFaults < MaxFaults
    /\ ddlLog' = a.lines
    /\ wr' = [wr EXCEPT ![w].off = a.off, ![w].err = a.err,
                        ![w].pc = IF a.err # "" THEN "unlock" ELSE "publish"]
    /\ heap' = Collect(heap, Roots(cur, wr', rd))
    /\ UNCHANGED <<cur, ddlOffset, manifest, snaps, rlast, rhist, muW, rd, calls,
                   applyVars, logVars, srvVars, exVars, psVars, stVars>>
AppendEvent(w) ==
    \E fault \in {"none", "write", "sync"} :
        wr[w].pc = "append" /\ Appended(w, AppendDDL(ddlLog, wr[w].ev[1], fault))

\* Step 3: r.cur.Store(newCat); r.ddlOffset = off
Publish(w) ==
    /\ wr[w].pc = "publish"
    /\ cur' = wr[w].new
    /\ ddlOffset' = wr[w].off
    /\ wr' = [wr EXCEPT ![w].pc = "manifest"]
    /\ heap' = Collect(heap, Roots(cur', wr', rd))
    /\ UNCHANGED <<ddlLog, manifest, snaps, rlast, rhist, muW, rd, calls,
                   applyVars, logVars, srvVars, exVars, psVars, stVars>>

\* Step 4: r.store.UpdateManifest(newCat.Version, off); u is its result
ManifestUpdated(w, u) ==
    /\ wr[w].pc = "manifest"
    /\ u.err # "" => IOFaults < MaxFaults
    /\ manifest' = u.manifest
    /\ wr' = [wr EXCEPT ![w].err = u.err, ![w].pc = "unlock"]
    /\ UNCHANGED <<heap, cur, ddlOffset, ddlLog, snaps, rlast, rhist, muW, rd, calls,
                   applyVars, logVars, srvVars, exVars, psVars, stVars>>
UpdateManifestStep(w) ==
    \E fault \in {"none", "manifest"} :
        /\ wr[w].pc = "manifest"
        /\ ManifestUpdated(w, UpdateManifest(manifest, snaps, heap[wr[w].new].Version,
                                            wr[w].off, fault))

\* What a returned call is remembered by
Returns(w, f) ==
    [w |-> w, ev |-> f.ev[1], err |-> f.err, conc |-> f.conc, off |-> f.off,
     oldv |-> CatValue(heap, f.old),
     newv |-> IF f.new = 0 THEN EmptyCatalogValue ELSE CatValue(heap, f.new)]

\* The deferred r.muW.Unlock(), and the return
Unlock(w) ==
    /\ wr[w].pc = "unlock"
    /\ muW' = ""
    /\ calls' = Append(calls, Returns(w, wr[w]))
    /\ wr' = [wr EXCEPT ![w] = NoFrame]
    /\ heap' = Collect(heap, Roots(cur, wr', rd))
    /\ UNCHANGED <<regVars, rd, applyVars, logVars, srvVars, exVars, psVars, stVars>>

\* (r *Registry) Current(), called by the reader, who keeps the pointer
Current ==
    /\ rd.cat # cur
    /\ rd' = [cat |-> cur, seen |-> CatValue(heap, cur)]
    /\ heap' = Collect(heap, Roots(cur, wr, rd'))
    /\ UNCHANGED <<regVars, muW, wr, calls, applyVars, logVars, srvVars, exVars, psVars, stVars>>

WritersNext ==
    \/ \E w \in Writers : ApplyCall(w)
    \/ \E w \in Writers : Lock(w)
    \/ \E w \in Writers : Compute(w)
    \/ \E w \in Writers : AppendEvent(w)
    \/ \E w \in Writers : Publish(w)
    \/ \E w \in Writers : UpdateManifestStep(w)
    \/ \E w \in Writers : Unlock(w)
    \/ Current

WritersInit == WritersStart /\ ApplyIdle /\ LogIdle /\ SrvIdle

SpecWriters == WritersInit /\ [][WritersNext]_vars

\* The catalog that the events on the lines S of the DDL log produce from the
\* empty catalog when they are applied in the order of the log; NoCatalog when
\* one of them is refused
NoCatalog == [Version |-> -1, Nodes |-> EmptyMap, Edges |-> EmptyMap]
RECURSIVE logFold(_, _, _, _)
logFolded(r, S, i) ==
    IF r.err # "" THEN NoCatalog ELSE logFold(Collect(r.heap, {r.out}), r.out, S, i + 1)
logFold(h, c, S, i) ==
    IF i > Len(ddlLog) THEN CatValue(h, c)
    ELSE IF i \notin S THEN logFold(h, c, S, i + 1)
    ELSE logFolded(registryCompute(h, c, eventOfJson(ddlLog[i])), S, i)
ResultOf(S) == logFold(NewEmpty(EmptyHeap).heap, NewEmpty(EmptyHeap).out, S, 1)

\* C12: persist before publish.  At every instant the catalog Current() returns
\* is the result of events that are already in the DDL log, and the catalog a
\* call has computed is visible to no reader before AppendDDL has returned
\* successfully for its event.
C12_PersistBeforePublish ==
    /\ \E S \in {T \in SUBSET DOMAIN ddlLog : Cardinality(T) = heap[cur].Version} :
            ResultOf(S) = CatValue(heap, cur)
    /\ \A w \in Writers :
            wr[w].pc = "append" => (cur # wr[w].new /\ rd.cat # wr[w].new)

\* A call has computed a second catalog and is about to call AppendDDL, while
\* the reader holds the catalog published by the first call
C12_Witness ==
    \E w \in Writers :
        /\ wr[w].pc = "append" /\ wr[w].new # 0
        /\ Len(ddlLog) = 1
        /\ rd.cat = cur /\ heap[cur].Version = 1
        /\ heap[wr[w].new].Version = 2

\* All the calls made have returned, and all of them succeeded
AllSucceeded == InApply = {} /\ \A i \in DOMAIN calls : calls[i].err = ""

\* C17: concurrent Registry.Apply calls are serialized.  When N concurrent calls
\* have all succeeded, the published version is the initial version plus N; each
\* call has extended the catalog published by the call before it (the first one
\* the initial catalog), so that no update is lost; and the events are in the DDL
\* log in the order of the versions they produced.
C17_Serialized ==
    AllSucceeded =>
        /\ heap[cur].Version = Len(calls)
        /\ \A i \in DOMAIN calls :
                /\ calls[i].newv.Version = calls[i].oldv.Version + 1
                /\ \/ calls[i].oldv = EmptyCatalogValue
                   \/ \E j \in DOMAIN calls : calls[j].newv = calls[i].oldv
                /\ ddlLog[calls[i].off] = jsonEvent(calls[i].ev)
                /\ calls[i].off = calls[i].newv.Version
        /\ \A i, j \in DOMAIN calls :
                (calls[i].newv.Version < calls[j].newv.Version) <=> (calls[i].off < calls[j].off)
        /\ \E i \in DOMAIN calls \cup {0} :
                IF i = 0 THEN calls = <<>> ELSE calls[i].newv = CatValue(heap, cur)

\* Two goroutines were inside Apply at the same time and both calls succeeded
C17_Witness ==
    /\ AllSucceeded
    /\ Len(calls) = 2
    /\ calls[1].w # calls[2].w
    /\ calls[2].conc
    /\ heap[cur].Version = 2

\* C18: a catalog obtained from Current() is never modified afterwards: whatever
\* Apply calls follow, successful or failed, its version, node types and edge
\* types are those it had when it was obtained.
C18_PublishedImmutable ==
    rd.cat # 0 => CatValue(heap, rd.cat) = rd.seen

\* The reader holds the catalog of version 1 after an ALTER NODE has published
\* version 2, which changes a node type the two catalogs have in common
C18_Witness ==
    /\ rd.cat # 0 /\ rd.cat # cur
    /\ rd.seen.Version = 1 /\ heap[cur].Version = 2
    /\ Has(rd.seen.Nodes, "A")
    /\ Has(CatValue(heap, cur).Nodes, "A")
    /\ CatValue(heap, cur).Nodes["A"] # rd.seen.Nodes["A"]
    /\ Len(calls) = 2

(***************************************************************************)
(* fileStore.AppendDDL called directly by several goroutines on a fresh    *)
(* directory, as the sequence of its steps: Lock, the write of the line,   *)
(* Sync, countLines, and the deferred Unlock.                              *)
(***************************************************************************)
MaxDDL == 3

\* The events the goroutines append: CREATE NODE <name> (f INT PRIMARY KEY)
StoreNames == {"A", "B", "C"}
StoreEvents == {Event("CREATE_NODE", [Name |-> n, Fields |-> <<FPK("f")>>]) : n \in StoreNames}

InAppend == {g \in Writers : ad[g].pc # "idle"}
StoreFaults ==
    Cardinality({i \in DOMAIN adCalls : adCalls[i].err # ""})
        + Cardinality({g \in Writers : ad[g].err # ""})

StoreStart ==
    /\ heap = EmptyHeap
    /\ RegIdle
    /\ StoreIdle

\* A goroutine calls AppendDDL(ev)
StoreCall(g) ==
    /\ ad[g].pc = "idle"
    /\ Len(adCalls) + Cardinality(InAppend) < MaxDDL
    /\ \E ev \in StoreEvents : ad' = [ad EXCEPT ![g] = [NoAppend EXCEPT !.pc = "lock", !.ev = <<ev>>]]
    /\ UNCHANGED <<heap, applyVars, regVars, logVars, srvVars, wrVars, exVars, psVars, fsMu, adCalls>>

\* A mutant of fs.mu.Lock(): it does not wait for the holder
StoreLockNoWait(g) ==
    /\ ad[g].pc = "lock"
    /\ fsMu' = g
    /\ ad' = [ad EXCEPT ![g].pc = "write"]
    /\ UNCHANGED <<heap, applyVars, regVars, logVars, srvVars, wrVars, exVars, psVars, adCalls>>

\* fs.mu.Lock()
StoreLock(g) ==
    /\ ad[g].pc = "lock"
    /\ fsMu = ""
    /\ fsMu' = g
    /\ ad' = [ad EXCEPT ![g].pc = "write"]
    /\ UNCHANGED <<heap, applyVars, regVars, logVars, srvVars, wrVars, exVars, psVars, adCalls>>

\* os.OpenFile with O_APPEND, json.Marshal(ev) and f.Write(append(b, '\n')):
\* the line is added to the file, or the write fails and nothing is added
StoreWrite(g) ==
    /\ ad[g].pc = "write"
    /\ \E fault \in BOOLEAN :
        /\ fault => StoreFaults < MaxFaults
        /\ ddlLog' = IF fault THEN ddlLog ELSE Append(ddlLog, jsonEvent(ad[g].ev[1]))
        /\ ad' = [ad EXCEPT ![g].err = IF fault THEN "write failed" ELSE "",
                            ![g].pc = IF fault THEN "unlock" ELSE "sync"]
    /\ UNCHANGED <<heap, applyVars, cur, ddlOffset, manifest, snaps, rlast, rhist, logVars,
                   srvVars, wrVars, exVars, psVars, fsMu, adCalls>>

\* f.Sync()
StoreSync(g) ==
    /\ ad[g].pc = "sync"
    /\ \E fault \in BOOLEAN :
        /\ fault => StoreFaults < MaxFaults
        /\ ad' = [ad EXCEPT ![g].err = IF fault THEN "sync failed" ELSE "",
                            ![g].pc = IF fault THEN "unlock" ELSE "count"]
    /\ UNCHANGED <<heap, applyVars, regVars, logVars, srvVars, wrVars, exVars, psVars, fsMu, adCalls>>

\* off, err := countLines(fs.ddlPath())
StoreCount(g) ==
    /\ ad[g].pc = "count"
    /\ ad' = [ad EXCEPT ![g].off = countLines(ddlLog), ![g].pc = "unlock"]
    /\ UNCHANGED <<heap, applyVars, regVars, logVars, srvVars, wrVars, exVars, psVars, fsMu, adCalls>>

\* The deferred f.Close() and fs.mu.Unlock(), and the return
StoreUnlock(g) ==
    /\ ad[g].pc = "unlock"
    /\ fsMu' = ""
    /\ adCalls' = Append(adCalls, [g |-> g, ev |-> ad[g].ev[1], off |-> ad[g].off,
                                   err |-> ad[g].err, conc |-> InAppend # {g}])
    /\ ad' = [ad EXCEPT ![g] = NoAppend]
    /\ UNCHANGED <<heap, applyVars, regVars, logVars, srvVars, wrVars, exVars, psVars>>

StoreNext ==
    \/ \E g \in Writers : StoreCall(g)
    \/ \E g \in Writers : StoreLock(g)
    \/ \E g \in Writers : StoreWrite(g)
    \/ \E g \in Writers : StoreSync(g)
    \/ \E g \in Writers : StoreCount(g)
    \/ \E g \in Writers : StoreUnlock(g)

StoreInit == StoreStart /\ ApplyIdle /\ LogIdle /\ SrvIdle /\ ExecIdle /\ ParserIdle
             /\ muW = "" /\ wr = [w \in Writers |-> NoFrame] /\ rd = NotHeld /\ calls = <<>>

SpecStore == StoreInit /\ [][StoreNext]_vars

\* What Load returns on the directory as it is now
Loaded == Load(EmptyHeap, manifest, snaps, ddlLog)

\* All the AppendDDL calls made have returned, and all of them returned nil
AllAppended == InAppend = {} /\ \A i \in DOMAIN adCalls : adCalls[i].err = ""

\* The events name different node types, so that each can be applied after
\* the others in whatever order they are in the log
Appliable == \A i, j \in DOMAIN adCalls : adCalls[i].ev = adCalls[j].ev => i = j

QueueCap == 1
MaxAppends == 2
Clients == {"c1"}

\* The k-th command appended: "a;", "b;", "c;", ...
Cmd(k) == <<96 + k, 59>>

IsSpace(c) == c \in {9, 10, 11, 12, 13, 32}
TrimSpace(b) ==
    LET idx == {i \in DOMAIN b : ~IsSpace(b[i])} IN
    IF idx = {} THEN <<>>
    ELSE SubSeq(b, CHOOSE i \in idx : \A j \in idx : i <= j,
                   CHOOSE i \in idx : \A j \in idx : j <= i)

\* writeEntry(line): the Write calls it makes on the bufio.Writer
WriteOp(data) == [op |-> "write", data |-> data]
FlushOp == [op |-> "flush", data |-> <<>>]
Header(line) ==
    <<(Len(line) \div 16777216) % 256, (Len(line) \div 65536) % 256,
      (Len(line) \div 256) % 256, Len(line) % 256>>
writeEntry(format, line) ==
    IF format = "binary" THEN <<WriteOp(Header(line)), WriteOp(line)>>
    ELSE IF Len(line) = 0 \/ line[Len(line)] # 10 THEN <<WriteOp(line), WriteOp(<<10>>)>>
    ELSE <<WriteOp(line)>>

\* bufio.Scanner with ScanLines: the lines of the file
RECURSIVE scanLines(_, _, _)
scanLines(bytes, i, line) ==
    IF i > Len(bytes) THEN IF line = <<>> THEN <<>> ELSE <<line>>
    ELSE IF bytes[i] = 10 THEN <<line>> \o scanLines(bytes, i + 1, <<>>)
    ELSE scanLines(bytes, i + 1, Append(line, bytes[i]))

\* Replay, text format: the commands handed to apply
replayText(bytes) ==
    [cmds |-> SelectSeq([i \in 1..Len(scanLines(bytes, 1, <<>>)) |->
                            TrimSpace(scanLines(bytes, 1, <<>>)[i])],
                        LAMBDA l : l # <<>>),
     err |-> FALSE]

\* Replay, binary format: i bytes have been consumed
RECURSIVE replayBinary(_, _, _)
replayRecord(bytes, i, n, out) ==
    IF n > 10485760 \/ Len(bytes) - (i + 4) < n THEN [cmds |-> out, err |-> TRUE]
    ELSE replayBinary(bytes, i + 4 + n,
                      IF TrimSpace(SubSeq(bytes, i + 5, i + 4 + n)) = <<>> THEN out
                      ELSE Append(out, TrimSpace(SubSeq(bytes, i + 5, i + 4 + n))))
replayBinary(bytes, i, out) ==
    IF Len(bytes) - i < 4 THEN [cmds |-> out, err |-> FALSE]
    ELSE replayRecord(bytes, i,
                      bytes[i + 1] * 16777216 + bytes[i + 2] * 65536
                          + bytes[i + 3] * 256 + bytes[i + 4],
                      out)

\* (cl *CommitLog) Replay(apply)
Replay(format, bytes) ==
    IF format = "binary" THEN replayBinary(bytes, 0, <<>>) ELSE replayText(bytes)

\* copy(b.buf[at:], data) on the buffer's array, and the array up to n
Overwrite(mem, at, data) ==
    [i \in 1..(IF Len(mem) > at + Len(data) THEN Len(mem) ELSE at + Len(data)) |->
        IF i > at /\ i <= at + Len(data) THEN data[i - at]
        ELSE IF i <= Len(mem) THEN mem[i] ELSE 0]
PadTo(mem, n) == [i \in 1..(IF Len(mem) > n THEN Len(mem) ELSE n) |->
                    IF i <= Len(mem) THEN mem[i] ELSE 0]

LogStart ==
    /\ clFormat \in {"text", "binary"}
    /\ clFile = <<>>
    /\ clFileOpen = TRUE
    /\ clBuf = [mem |-> <<>>, n |-> 0, err |-> FALSE]
    /\ clQueue = <<>>
    /\ clStarted = FALSE
    /\ clClosed = FALSE
    /\ clDone = FALSE
    /\ clMu = ""
    /\ clPc = [g \in Goroutines |-> "idle"]
    /\ clTodo = [g \in Goroutines |-> <<>>]
    /\ clLoc = [g \in Goroutines |-> -1]
    /\ clCur = [g \in Goroutines |-> 0]
    /\ clCalls = <<>>

logRest == <<heap, applyVars, regVars, srvVars, wrVars, exVars, psVars, stVars>>
StopCalled == clPc["stopper"] # "idle"
Returned == {i \in DOMAIN clCalls : clCalls[i].ret # "pending"}
Call(cmd, ret) ==
    [cmd |-> cmd, ret |-> ret, before |-> Returned, started |-> clStarted,
     stopped |-> StopCalled]

\* (cl *CommitLog) Start()
Start ==
    /\ ~clStarted
    /\ clMu = ""
    /\ clStarted' = TRUE
    /\ clPc' = [clPc EXCEPT !["writer"] = "select"]
    /\ UNCHANGED <<clFormat, clFile, clFileOpen, clBuf, clQueue, clClosed, clDone, clMu,
                   clTodo, clLoc, clCur, clCalls, logRest>>

\* A mutant of Append: the empty command is enqueued like any other
AppendEmptyQueued(p) ==
    /\ clPc[p] = "idle"
    /\ Len(clCalls) < MaxAppends
    /\ clQueue' = Append(clQueue, <<>>)
    /\ clCalls' = Append(clCalls, Call(<<>>, "nil"))
    /\ UNCHANGED <<clFormat, clFile, clFileOpen, clBuf, clStarted, clClosed,
                   clDone, clMu, clPc, clTodo, clLoc, clCur, logRest>>

\* Append(""): an error, nothing else
AppendEmpty(p) ==
    /\ clPc[p] = "idle"
    /\ Len(clCalls) < MaxAppends
    /\ clCalls' = Append(clCalls, Call(<<>>, "err"))
    /\ UNCHANGED <<clFormat, clFile, clFileOpen, clBuf, clQueue, clStarted, clClosed,
                   clDone, clMu, clPc, clTodo, clLoc, clCur, logRest>>

\* Append(command): the select.  Either the command goes into the queue and the
\* call returns nil, or the queue is full and the call goes for the mutex.
AppendCall(p) ==
    /\ clPc[p] = "idle"
    /\ Len(clCalls) < MaxAppends
    /\ IF Len(clQueue) < QueueCap
       THEN /\ clQueue' = Append(clQueue, Cmd(Len(clCalls) + 1))
            /\ clCalls' = Append(clCalls, Call(Cmd(Len(clCalls) + 1), "nil"))
            /\ UNCHANGED <<clPc, clCur>>
       ELSE /\ clCalls' = Append(clCalls, Call(Cmd(Len(clCalls) + 1), "pending"))
            /\ clPc' = [clPc EXCEPT ![p] = "lock"]
            /\ clCur' = [clCur EXCEPT ![p] = Len(clCalls) + 1]
            /\ UNCHANGED clQueue
    /\ UNCHANGED <<clFormat, clFile, clFileOpen, clBuf, clStarted, clClosed, clDone, clMu,
                   clTodo, clLoc, logRest>>

\* Append, queue-full path: cl.mu.Lock(), then writeEntry and Flush are to be done
AppendLock(p) ==
    /\ clPc[p] = "lock"
    /\ clMu = ""
    /\ clMu' = p
    /\ clPc' = [clPc EXCEPT ![p] = "sync"]
    /\ clTodo' = [clTodo EXCEPT ![p] = writeEntry(clFormat, clCalls[clCur[p]].cmd) \o <<FlushOp>>]
    /\ UNCHANGED <<clFormat, clFile, clFileOpen, clBuf, clQueue, clStarted, clClosed,
                   clDone, clLoc, clCur, clCalls, logRest>>

\* Append, queue-full path: return cl.w.Flush(), and the deferred Unlock
AppendReturn(p) ==
    /\ clPc[p] = "sync"
    /\ clTodo[p] = <<>>
    /\ clMu' = ""
    /\ clPc' = [clPc EXCEPT ![p] = "idle"]
    /\ clCalls' = [clCalls EXCEPT ![clCur[p]].ret = IF clBuf.err THEN "err" ELSE "nil",
                                  ![clCur[p]].stopped = StopCalled]
    /\ UNCHANGED <<clFormat, clFile, clFileOpen, clBuf, clQueue, clStarted, clClosed,
                   clDone, clTodo, clLoc, clCur, logRest>>

\* A goroutine enters its next bufio.Writer call.  Write reads w.n (and does
\* nothing once w.err is set); Flush returns at once when w.err is set or w.n
\* is 0, else it writes w.buf[0:w.n] to the file and fails if the file is closed.
PopTodo(g) == clTodo' = [clTodo EXCEPT ![g] = Tail(clTodo[g])]
BufBegin(g) ==
    /\ clTodo[g] # <<>>
    /\ clLoc[g] = -1
    /\ IF clBuf.err \/ (Head(clTodo[g]).op = "flush" /\ clBuf.n = 0)
       THEN PopTodo(g) /\ UNCHANGED <<clFile, clBuf, clLoc>>
       ELSE IF Head(clTodo[g]).op = "write"
       THEN /\ clLoc' = [clLoc EXCEPT ![g] = clBuf.n]
            /\ UNCHANGED <<clFile, clBuf, clTodo>>
       ELSE IF ~clFileOpen
       THEN /\ clBuf' = [clBuf EXCEPT !.err = TRUE]
            /\ PopTodo(g)
            /\ UNCHANGED <<clFile, clLoc>>
       ELSE /\ clFile' = clFile \o SubSeq(clBuf.mem, 1, clBuf.n)
            /\ clLoc' = [clLoc EXCEPT ![g] = clBuf.n]
            /\ UNCHANGED <<clBuf, clTodo>>
    /\ UNCHANGED <<clFormat, clFileOpen, clQueue, clStarted, clClosed, clDone, clMu, clPc,
                   clCur, clCalls, logRest>>

\* The goroutine finishes the call.  Write copies the data to where it read w.n
\* and adds its length to w.n, which it may read again or not; Flush sets w.n to 0.
BufEnd(g) ==
    /\ clTodo[g] # <<>>
    /\ clLoc[g] # -1
    /\ IF Head(clTodo[g]).op = "write"
       THEN \E base \in {clLoc[g], clBuf.n} :
                clBuf' = [mem |-> PadTo(Overwrite(clBuf.mem, clLoc[g], Head(clTodo[g]).data),
                                        base + Len(Head(clTodo[g]).data)),
                          n |-> base + Len(Head(clTodo[g]).data),
                          err |-> clBuf.err]
       ELSE clBuf' = [clBuf EXCEPT !.n = 0]
    /\ PopTodo(g)
    /\ clLoc' = [clLoc EXCEPT ![g] = -1]
    /\ UNCHANGED <<clFormat, clFile, clFileOpen, clQueue, clStarted, clClosed, clDone, clMu,
                   clPc, clCur, clCalls, logRest>>

\* run(): the select finds the closed channel closed and goes to the drain loop
WriterClosed ==
    /\ clPc["writer"] = "select"
    /\ clTodo["writer"] = <<>>
    /\ clClosed
    /\ clPc' = [clPc EXCEPT !["writer"] = "drain"]
    /\ UNCHANGED <<clFormat, clFile, clFileOpen, clBuf, clQueue, clStarted, clClosed,
                   clDone, clMu, clTodo, clLoc, clCur, clCalls, logRest>>

\* run(): a command is received from the queue (in either loop); writeEntry is
\* to be done.  The mutex is not taken.
WriterDequeue ==
    /\ clPc["writer"] \in {"select", "drain"}
    /\ clTodo["writer"] = <<>>
    /\ clQueue # <<>>
    /\ clQueue' = Tail(clQueue)
    /\ clTodo' = [clTodo EXCEPT !["writer"] = writeEntry(clFormat, Head(clQueue))]
    /\ UNCHANGED <<clFormat, clFile, clFileOpen, clBuf, clStarted, clClosed, clDone, clMu,
                   clPc, clLoc, clCur, clCalls, logRest>>

\* run(): the ticker fires; Flush and Sync are to be done
WriterTick ==
    /\ clPc["writer"] = "select"
    /\ clTodo["writer"] = <<>>
    /\ clBuf.n > 0
    /\ clTodo' = [clTodo EXCEPT !["writer"] = <<FlushOp>>]
    /\ UNCHANGED <<clFormat, clFile, clFileOpen, clBuf, clQueue, clStarted, clClosed,
                   clDone, clMu, clPc, clLoc, clCur, clCalls, logRest>>

\* run(): the drain loop finds the queue empty; Flush and Sync are to be done
WriterDrained ==
    /\ clPc["writer"] = "drain"
    /\ clTodo["writer"] = <<>>
    /\ clQueue = <<>>
    /\ clTodo' = [clTodo EXCEPT !["writer"] = <<FlushOp>>]
    /\ clPc' = [clPc EXCEPT !["writer"] = "closing"]
    /\ UNCHANGED <<clFormat, clFile, clFileOpen, clBuf, clQueue, clStarted, clClosed,
                   clDone, clMu, clLoc, clCur, clCalls, logRest>>

\* run(): close(cl.done) and return
WriterExit ==
    /\ clPc["writer"] = "closing"
    /\ clTodo["writer"] = <<>>
    /\ clDone' = TRUE
    /\ clPc' = [clPc EXCEPT !["writer"] = "exited"]
    /\ UNCHANGED <<clFormat, clFile, clFileOpen, clBuf, clQueue, clStarted, clClosed,
                   clMu, clTodo, clLoc, clCur, clCalls, logRest>>

\* (cl *CommitLog) Stop(), called for the first time or again after it has
\* returned: takes the mutex; returns at once if the log was not started, else
\* closes the closed channel and waits for done.  started is never reset, so a
\* call after a Stop that closed the channel closes it again: close of a closed
\* channel panics (the deferred Unlock runs as the panic unwinds).
StopCall ==
    /\ clPc["stopper"] \in {"idle", "returned"}
    /\ clMu = ""
    /\ IF ~clStarted
       THEN /\ clPc' = [clPc EXCEPT !["stopper"] = "returned"]
            /\ UNCHANGED <<clMu, clClosed>>
       ELSE IF clClosed
       THEN /\ clPc' = [clPc EXCEPT !["stopper"] = "panicked"]
            /\ UNCHANGED <<clMu, clClosed>>
       ELSE /\ clMu' = "stopper"
            /\ clClosed' = TRUE
            /\ clPc' = [clPc EXCEPT !["stopper"] = "wait"]
    /\ UNCHANGED <<clFormat, clFile, clFileOpen, clBuf, clQueue, clStarted, clDone,
                   clTodo, clLoc, clCur, clCalls, logRest>>

\* Stop: <-cl.done has returned; Flush is to be done
StopWait ==
    /\ clPc["stopper"] = "wait"
    /\ clDone
    /\ clTodo' = [clTodo EXCEPT !["stopper"] = <<FlushOp>>]
    /\ clPc' = [clPc EXCEPT !["stopper"] = "flush"]
    /\ UNCHANGED <<clFormat, clFile, clFileOpen, clBuf, clQueue, clStarted, clClosed,
                   clDone, clMu, clLoc, clCur, clCalls, logRest>>

\* Stop: Sync, Close, and the deferred Unlock
StopReturn ==
    /\ clPc["stopper"] = "flush"
    /\ clTodo["stopper"] = <<>>
    /\ clFileOpen' = FALSE
    /\ clMu' = ""
    /\ clPc' = [clPc EXCEPT !["stopper"] = "returned"]
    /\ UNCHANGED <<clFormat, clFile, clBuf, clQueue, clStarted, clClosed, clDone, clTodo,
                   clLoc, clCur, clCalls, logRest>>

LogNext ==
    \/ Start
    \/ \E p \in Clients : AppendEmpty(p)
    \/ \E p \in Clients : AppendCall(p)
    \/ \E p \in Clients : AppendLock(p)
    \/ \E p \in Clients : AppendReturn(p)
    \/ \E g \in Goroutines : BufBegin(g)
    \/ \E g \in Goroutines : BufEnd(g)
    \/ WriterClosed
    \/ WriterDequeue
    \/ WriterTick
    \/ WriterDrained
    \/ WriterExit
    \/ StopCall
    \/ StopWait
    \/ StopReturn

LogInit == LogStart /\ heap = EmptyHeap /\ ApplyIdle /\ RegIdle /\ SrvIdle /\ WritersIdle /\ ExecIdle /\ ParserIdle /\ StoreIdle

SpecCommitLog == LogInit /\ [][LogNext]_vars

\* The goroutines run() and the callers inside Append and Stop are scheduled
\* fairly; nobody is obliged to call Start, Append or Stop
WriterStep ==
    \/ WriterClosed \/ WriterDequeue \/ WriterTick \/ WriterDrained \/ WriterExit
    \/ BufBegin("writer") \/ BufEnd("writer")
CallerStep ==
    \/ \E p \in Clients : AppendLock(p) \/ AppendReturn(p) \/ BufBegin(p) \/ BufEnd(p)
    \/ StopWait \/ StopReturn \/ BufBegin("stopper") \/ BufEnd("stopper")
SpecCommitLogFair ==
    LogInit /\ [][LogNext]_vars /\ WF_vars(WriterStep) /\ WF_vars(CallerStep)

\* What Replay hands to apply when it reads the file as it is now
Delivered == Replay(clFormat, clFile).cmds
Places(k) == {i \in DOMAIN Delivered : Delivered[i] = Cmd(k)}

\* C4: if Append(a) returned before Append(b) was called, Replay delivers a
\* before b, whichever of the two paths of Append each call took.
C4_AppendOrder ==
    \A a, b \in DOMAIN clCalls :
        (a \in clCalls[b].before /\ clCalls[a].ret = "nil" /\ clCalls[b].ret = "nil")
            => \A i \in Places(a), j \in Places(b) : i < j

\* C5: when Stop has returned, every command whose Append returned nil on the
\* started log before Stop was called is in the log file exactly once.
C5_NoLossAtStop ==
    clPc["stopper"] = "returned" =>
        \A k \in DOMAIN clCalls :
            (clCalls[k].ret = "nil" /\ clCalls[k].started /\ ~clCalls[k].stopped)
                => Cardinality(Places(k)) = 1

\* The non-empty commands of the Append calls, trimmed, in the order of the calls
AppendedCommands ==
    SelectSeq([k \in DOMAIN clCalls |-> TrimSpace(clCalls[k].cmd)], LAMBDA c : c # <<>>)

\* C24: for any sequence of non-empty commands appended to a started commit log
\* and followed by Stop, Replay on the log invokes apply exactly once per
\* command, in append order, with the trimmed text of the command, in the text
\* format and in the binary format alike.
C24_RoundTrip ==
    (/\ clPc["stopper"] = "returned"
     /\ \A k \in DOMAIN clCalls :
            clCalls[k].started /\ ~clCalls[k].stopped /\ clCalls[k].ret # "pending")
        => Delivered = AppendedCommands

\* A goroutine is writing a record: it is between the first bufio.Writer call of
\* a writeEntry and the return of the last one
WritingEntry(g) == \E i \in DOMAIN clTodo[g] : clTodo[g][i].op = "write"

\* C25: the background writer and the queue-full path of Append never write to
\* the buffered writer at the same time, so the bytes of a record are never
\* interleaved with the bytes of another record.
C25_WritesExclusive ==
    \A g1, g2 \in Goroutines : (WritingEntry(g1) /\ WritingEntry(g2)) => g1 = g2

\* Append(k) has returned nil; the file holds the command
Accepted(k) == k \in DOMAIN clCalls /\ clCalls[k].ret = "nil" /\ clCalls[k].cmd # <<>>
Written(k) == Places(k) # {}

\* C35: while the commit log is started and not stopped, every command for which
\* Append returned nil is eventually written to the file (and fsynced) without
\* any further Append or Stop being needed, the writer and the ticker being
\* scheduled fairly.
C35_EventuallyWritten ==
    \A k \in 1..MaxAppends :
        (Accepted(k) /\ clStarted /\ ~StopCalled) ~> (Written(k) \/ StopCalled)

\* No goroutine has a step to take: run() waits in its select with nothing to
\* receive and nothing buffered, and no call of Append or Stop is in progress
AtRest ==
    /\ clStarted /\ ~StopCalled
    /\ clPc["writer"] = "select" /\ clTodo["writer"] = <<>>
    /\ clQueue = <<>> /\ clBuf.n = 0
    /\ \A p \in Clients : clPc[p] = "idle"

\* C35, as a finite run refutes it: once the started log has come to rest,
\* every command whose Append returned nil is in the file
C35_WrittenAtRest == AtRest => \A k \in DOMAIN clCalls : Accepted(k) => Written(k)

\* Stop is inside a call on a started log
Stopping == clPc["stopper"] \in {"wait", "flush"}

\* C39: on a started commit log Stop always returns: while Stop is in progress
\* the writer or Stop itself has a step to take, whatever Append is doing (the
\* writer closes done without needing the mutex Stop holds); and a second call
\* of Stop returns as well, without panicking.
C39_StopReturns ==
    /\ Stopping => ENABLED (WriterStep \/ StopWait \/ StopReturn
                               \/ BufBegin("stopper") \/ BufEnd("stopper"))
    /\ clPc["stopper"] # "panicked"

\* C40: Append never reports success for a command that will not reach the
\* file: a call made on a log that was never started, or after Stop has returned
\* and closed the file, does not return nil.
C40_NoSuccessWithoutWriter ==
    [][\A k \in DOMAIN clCalls' :
            (/\ clCalls'[k].ret = "nil"
             /\ k \in DOMAIN clCalls => clCalls[k].ret = "pending")
                => (clStarted /\ clFileOpen)]_vars

(***************************************************************************)
(* Parser AST, as the executor reads it.  A nil pointer is <<>>, a pointer *)
(* to v is <<v>>.                                                          *)
(***************************************************************************)
Literal(kind, text) == [Kind |-> kind, Text |-> text]
Property(name, lit) == [Name |-> name, Value |-> lit]
NodeRef(type, id, props) == [NodeType |-> type, ID |-> id, Properties |-> props]
ParserType(base) == [Base |-> base, Elem |-> <<>>, EnumVals |-> <<>>]
FieldDef(name, type, pk, uniq, notnull, def) ==
    [Name |-> name, Type |-> type, PrimaryKey |-> pk, Unique |-> uniq,
     NotNull |-> notnull, Default |-> def]
ParserEndpoint(label, card) == [Label |-> label, Card |-> card]

\* Converters from parser types to catalog types
convertBaseType(bt) ==
    CASE bt = "BaseString" -> "STRING"
      [] bt = "BaseText" -> "TEXT"
      [] bt = "BaseInt" -> "INT"
      [] bt = "BaseFloat" -> "FLOAT"
      [] bt = "BaseBool" -> "BOOL"
      [] bt = "BaseUUID" -> "UUID"
      [] bt = "BaseDate" -> "DATE"
      [] bt = "BaseTime" -> "TIME"
      [] bt = "BaseDateTime" -> "DATETIME"
      [] bt = "BaseJSON" -> "JSON"
      [] bt = "BaseBlob" -> "BLOB"
      [] OTHER -> "STRING"
RECURSIVE convertTypeSpec(_)
convertTypeSpec(t) ==
    [Base |-> convertBaseType(t.Base),
     Elem |-> IF t.Elem = <<>> THEN <<>> ELSE <<convertTypeSpec(t.Elem[1])>>,
     EnumVals |-> [i \in 1..Len(t.EnumVals) |-> t.EnumVals[i]]]
convertCardinality(c) ==
    CASE c = "CardOne" -> "ONE"
      [] c = "CardMany" -> "MANY"
      [] OTHER -> "ONE"

\* The FieldPayload built from a FieldDef; the PRIMARY KEY flag is copied by
\* executeCreateNode only
fieldPayload(fd, pk) ==
    Field(fd.Name, convertTypeSpec(fd.Type), pk, fd.Unique, fd.NotNull,
          IF fd.Default = <<>> THEN <<>> ELSE <<fd.Default[1].Text>>)
endpointOf(ep) == Endpoint(ep.Label, convertCardinality(ep.Card))
RECURSIVE Join(_, _)
Join(names, sep) ==
    IF names = <<>> THEN ""
    ELSE IF Len(names) = 1 THEN names[1]
    ELSE names[1] \o sep \o Join(Tail(names), sep)

\* DDL helpers: the event handed to Registry.Apply, or the error returned
\* without calling it
Submit(ev) == [err |-> "", ev |-> <<ev>>]
Refuse(e) == [err |-> e, ev |-> <<>>]
executeCreateNode(stmt) ==
    Submit(Event("CREATE_NODE",
                 [Name |-> stmt.Name,
                  Fields |-> [i \in 1..Len(stmt.Fields) |->
                                 fieldPayload(stmt.Fields[i], stmt.Fields[i].PrimaryKey)]]))
executeCreateEdge(stmt) ==
    Submit(Event("CREATE_EDGE",
                 [Name |-> stmt.Name, From |-> endpointOf(stmt.From), To |-> endpointOf(stmt.To),
                  Props |-> [i \in 1..Len(stmt.Props) |-> fieldPayload(stmt.Props[i], FALSE)]]))
executeAlterNode(stmt) ==
    IF stmt.Action \notin {"AlterAddField", "AlterDropField", "AlterModifyField",
                           "AlterSetPrimaryKey"}
    THEN Refuse("unsupported alter node action")
    ELSE Submit(Event("ALTER_NODE",
                      [Name |-> stmt.Name,
                       Actions |-> <<
                         CASE stmt.Action = "AlterAddField" ->
                                  NodeAction("ADD_FIELD", <<fieldPayload(stmt.Field[1], FALSE)>>, "")
                           [] stmt.Action = "AlterDropField" ->
                                  NodeAction("DROP_FIELD", <<>>, stmt.FieldName)
                           [] stmt.Action = "AlterModifyField" ->
                                  NodeAction("MODIFY_FIELD", <<fieldPayload(stmt.Field[1], FALSE)>>, "")
                           [] stmt.Action = "AlterSetPrimaryKey" ->
                                  NodeAction("SET_PRIMARY_KEY", <<>>, Join(stmt.PkFields, ","))>>]))
executeAlterEdge(stmt) ==
    IF stmt.Action \notin {"AlterAddProp", "AlterDropProp", "AlterModifyProp",
                           "AlterSetEndpoints"}
    THEN Refuse("unsupported alter edge action")
    ELSE Submit(Event("ALTER_EDGE",
                      [Name |-> stmt.Name,
                       Actions |-> <<
                         CASE stmt.Action = "AlterAddProp" ->
                                  EdgeAction("ADD_PROP", <<fieldPayload(stmt.Prop[1], FALSE)>>, "", "", <<>>)
                           [] stmt.Action = "AlterDropProp" ->
                                  EdgeAction("DROP_PROP", <<>>, stmt.PropName, "", <<>>)
                           [] stmt.Action = "AlterModifyProp" ->
                                  EdgeAction("MODIFY_PROP", <<fieldPayload(stmt.Prop[1], FALSE)>>, "", "", <<>>)
                           [] stmt.Action = "AlterSetEndpoints" ->
                                  IF stmt.From # <<>>
                                  THEN EdgeAction("CHANGE_ENDPOINT", <<>>, "", "FROM",
                                                  <<endpointOf(stmt.From[1])>>)
                                  ELSE IF stmt.To # <<>>
                                  THEN EdgeAction("CHANGE_ENDPOINT", <<>>, "", "TO",
                                                  <<endpointOf(stmt.To[1])>>)
                                  ELSE EdgeAction("", <<>>, "", "", <<>>)>>]))
executeDropNode(stmt) == Submit(Event("DROP_NODE", [Name |-> stmt.Name]))
executeDropEdge(stmt) == Submit(Event("DROP_EDGE", [Name |-> stmt.Name]))

(***************************************************************************)
(* GraphData and the DML statements.  A property value is a Go interface   *)
(* value: a string, a bool or nil.  A call returns [graph, err]; where the *)
(* code ranges over a Go map and stops at the first match, the call        *)
(* returns the set of results that the iteration orders produce.           *)
(***************************************************************************)
StringValue(s) == [kind |-> "string", s |-> s, b |-> FALSE]
BoolValue(b) == [kind |-> "bool", s |-> "", b |-> b]
NilValue == [kind |-> "nil", s |-> "", b |-> FALSE]

\* New(reg): the graph of a new executor
NewGraph == [Nodes |-> EmptyMap, Edges |-> EmptyMap, NextID |-> 1]
EdgeInstance(id, from, to, props) ==
    [ID |-> id, FromNodeID |-> from, ToNodeID |-> to, Properties |-> props]

\* fmt.Sprintf("%d", n) for the ids the model reaches
FormatInt(n) ==
    <<"1", "2", "3", "4", "5", "6", "7", "8", "9", "10", "11", "12", "13", "14", "15", "16">>[n]

\* The value stored for a literal
literalValue(lit) ==
    CASE lit.Kind \in {"LitString", "LitNumber"} -> StringValue(lit.Text)
      [] lit.Kind = "LitBool" -> BoolValue(lit.Text = "true")
      [] lit.Kind = "LitNull" -> NilValue

\* properties[prop.Name] = value, for each property in order
RECURSIVE setProperties(_, _)
setProperties(m, props) ==
    IF props = <<>> THEN m
    ELSE setProperties(Put(m, Head(props).Name, literalValue(Head(props).Value)), Tail(props))

\* A mutant of matchesConditions: a property the entity lacks is not compared
matchesPresent(properties, conditions) ==
    \A i \in DOMAIN conditions :
        Has(properties, conditions[i].Name) =>
            properties[conditions[i].Name] = literalValue(conditions[i].Value)

matchesConditions(properties, conditions) ==
    \A i \in DOMAIN conditions :
        /\ Has(properties, conditions[i].Name)
        /\ properties[conditions[i].Name] = literalValue(conditions[i].Value)

\* findNodeID: [id, err] for each node the range over the map may meet first
findNodeID(g, nodeRef) ==
    IF ~Has(g.Nodes, nodeRef.NodeType) THEN {[id |-> "", err |-> "no nodes of type found"]}
    ELSE IF nodeRef.ID # <<>>
    THEN IF Has(g.Nodes[nodeRef.NodeType], nodeRef.ID[1].Text)
         THEN {[id |-> nodeRef.ID[1].Text, err |-> ""]}
         ELSE {[id |-> "", err |-> "node with ID not found"]}
    ELSE IF \A id \in DOMAIN g.Nodes[nodeRef.NodeType] :
                ~matchesConditions(g.Nodes[nodeRef.NodeType][id], nodeRef.Properties)
    THEN {[id |-> "", err |-> "no matching node found"]}
    ELSE {[id |-> id, err |-> ""] :
             id \in {n \in DOMAIN g.Nodes[nodeRef.NodeType] :
                        matchesConditions(g.Nodes[nodeRef.NodeType][n], nodeRef.Properties)}}

Done(g, e) == [graph |-> g, err |-> e]

\* A mutant of executeInsertNode: the node is stored under the counter's value
\* after the increment
insertNodeNextId(nodeType, g, stmt, g1, properties) ==
    IF \E f \in DOMAIN nodeType.Fields : nodeType.Fields[f].NotNull /\ ~Has(properties, f)
    THEN Done(g1, "required field is missing")
    ELSE Done([g1 EXCEPT !.Nodes[stmt.NodeType] =
                  Put(@, FormatInt(g1.NextID),
                      Put(properties, "_id", StringValue(FormatInt(g1.NextID))))], "")
\* executeInsertNode: the id is taken and the bucket of the type is made before
\* the required fields are checked
insertNodeChecked(nodeType, g, stmt, g1, properties) ==
    IF \E f \in DOMAIN nodeType.Fields : nodeType.Fields[f].NotNull /\ ~Has(properties, f)
    THEN Done(g1, "required field is missing")
    ELSE Done([g1 EXCEPT !.Nodes[stmt.NodeType] =
                  Put(@, FormatInt(g.NextID),
                      Put(properties, "_id", StringValue(FormatInt(g.NextID))))], "")
\* A mutant of executeInsertNode: the required fields are checked before the id
\* is taken and the bucket made
executeInsertNodeCheckedFirst(h, c, g, stmt) ==
    IF ~Has(h[c].Nodes, stmt.NodeType) THEN Done(g, "node type does not exist")
    ELSE IF \E f \in DOMAIN h[h[c].Nodes[stmt.NodeType]].Fields :
                /\ h[h[c].Nodes[stmt.NodeType]].Fields[f].NotNull
                /\ ~Has(setProperties(EmptyMap, stmt.Properties), f)
    THEN Done(g, "required field is missing")
    ELSE insertNodeChecked(h[h[c].Nodes[stmt.NodeType]], g, stmt,
                           [g EXCEPT !.NextID = @ + 1,
                                     !.Nodes = IF Has(@, stmt.NodeType) THEN @
                                               ELSE Put(@, stmt.NodeType, EmptyMap)],
                           setProperties(EmptyMap, stmt.Properties))
\* executeInsertNode
executeInsertNode(h, c, g, stmt) ==
    IF ~Has(h[c].Nodes, stmt.NodeType) THEN Done(g, "node type does not exist")
    ELSE insertNodeChecked(h[h[c].Nodes[stmt.NodeType]], g, stmt,
                           [g EXCEPT !.NextID = @ + 1,
                                     !.Nodes = IF Has(@, stmt.NodeType) THEN @
                                               ELSE Put(@, stmt.NodeType, EmptyMap)],
                           setProperties(EmptyMap, stmt.Properties))

\* A mutant of executeInsertEdge: the TO label is not compared
insertEdgeToUnchecked(edgeType, g, stmt, from, to) ==
    IF from.err # "" THEN Done(g, "FROM node not found")
    ELSE IF to.err # "" THEN Done(g, "TO node not found")
    ELSE IF stmt.FromNode.NodeType # edgeType.From.Label
    THEN Done(g, "FROM node type does not match edge FROM type")
    ELSE Done([g EXCEPT !.NextID = @ + 1,
                        !.Edges = Put(@, stmt.EdgeType,
                                      Append(IF Has(@, stmt.EdgeType) THEN @[stmt.EdgeType]
                                             ELSE <<>>,
                                             EdgeInstance("edge_" \o FormatInt(g.NextID),
                                                          from.id, to.id,
                                                          setProperties(EmptyMap, stmt.Properties))))],
              "")
\* executeInsertEdge, once findNodeID has returned from and to
insertEdgeResolved(edgeType, g, stmt, from, to) ==
    IF from.err # "" THEN Done(g, "FROM node not found")
    ELSE IF to.err # "" THEN Done(g, "TO node not found")
    ELSE IF stmt.FromNode.NodeType # edgeType.From.Label
    THEN Done(g, "FROM node type does not match edge FROM type")
    ELSE IF stmt.ToNode.NodeType # edgeType.To.Label
    THEN Done(g, "TO node type does not match edge TO type")
    ELSE Done([g EXCEPT !.NextID = @ + 1,
                        !.Edges = Put(@, stmt.EdgeType,
                                      Append(IF Has(@, stmt.EdgeType) THEN @[stmt.EdgeType]
                                             ELSE <<>>,
                                             EdgeInstance("edge_" \o FormatInt(g.NextID),
                                                          from.id, to.id,
                                                          setProperties(EmptyMap, stmt.Properties))))],
              "")
executeInsertEdge(h, c, g, stmt) ==
    IF ~Has(h[c].Edges, stmt.EdgeType) THEN {Done(g, "edge type does not exist")}
    ELSE {insertEdgeResolved(h[h[c].Edges[stmt.EdgeType]], g, stmt, from, to) :
             from \in findNodeID(g, stmt.FromNode), to \in findNodeID(g, stmt.ToNode)}

executeUpdateNode(g, stmt) ==
    IF ~Has(g.Nodes, stmt.NodeType) THEN Done(g, "no nodes of type found")
    ELSE Done([g EXCEPT !.Nodes[stmt.NodeType] =
                  [id \in DOMAIN @ |-> IF matchesConditions(@[id], stmt.Where)
                                       THEN setProperties(@[id], stmt.Set) ELSE @[id]]], "")

executeUpdateEdge(g, stmt) ==
    IF ~Has(g.Edges, stmt.EdgeType) THEN Done(g, "")
    ELSE Done([g EXCEPT !.Edges[stmt.EdgeType] =
                  [i \in DOMAIN @ |->
                      IF matchesConditions(@[i].Properties, stmt.Where)
                      THEN [@[i] EXCEPT !.Properties = setProperties(@, stmt.Set)]
                      ELSE @[i]]], "")

executeDeleteNode(g, stmt) ==
    IF ~Has(g.Nodes, stmt.NodeType) THEN Done(g, "no nodes of type found")
    ELSE Done([g EXCEPT !.Nodes[stmt.NodeType] =
                  [id \in {n \in DOMAIN @ : ~matchesConditions(@[n], stmt.Where)} |-> @[id]]],
              "")

\* executeDeleteEdge stores the remaining edges under the type, present or not
executeDeleteEdge(g, stmt) ==
    Done([g EXCEPT !.Edges =
             Put(@, stmt.EdgeType,
                 IF Has(@, stmt.EdgeType)
                 THEN SelectSeq(@[stmt.EdgeType],
                                LAMBDA e : ~matchesConditions(e.Properties, stmt.Where))
                 ELSE <<>>)], "")

\* executeMatch writes to the client and changes nothing
executeMatch(g, stmt) == Done(g, "")

(***************************************************************************)
(* Statements, and ExecuteStatement.  A statement carries the name of its  *)
(* AST type in kind.                                                       *)
(***************************************************************************)
DDLKinds == {"CreateNodeStmt", "CreateEdgeStmt", "AlterNodeStmt", "AlterEdgeStmt",
             "DropNodeStmt", "DropEdgeStmt"}
MutatingKinds == DDLKinds \cup {"InsertNodeStmt", "InsertEdgeStmt", "UpdateNodeStmt",
                                "UpdateEdgeStmt", "DeleteNodeStmt", "DeleteEdgeStmt"}

X(text) == Property("x", Literal("LitString", text))
W(text) == Property("w", Literal("LitBool", text))
CreateNodeStmt(name, fields) == [kind |-> "CreateNodeStmt", Name |-> name, Fields |-> fields]
CreateEdgeStmt(name, from, to, props) ==
    [kind |-> "CreateEdgeStmt", Name |-> name, From |-> from, To |-> to, Props |-> props]
AlterNodeStmt(name, action, field, fieldName, pkFields) ==
    [kind |-> "AlterNodeStmt", Name |-> name, Action |-> action, Field |-> field,
     FieldName |-> fieldName, PkFields |-> pkFields]
AlterEdgeStmt(name, action, prop, propName, from, to) ==
    [kind |-> "AlterEdgeStmt", Name |-> name, Action |-> action, Prop |-> prop,
     PropName |-> propName, From |-> from, To |-> to]
DropNodeStmt(name) == [kind |-> "DropNodeStmt", Name |-> name]
DropEdgeStmt(name) == [kind |-> "DropEdgeStmt", Name |-> name]
InsertNodeStmt(type, props) == [kind |-> "InsertNodeStmt", NodeType |-> type, Properties |-> props]
InsertEdgeStmt(type, from, to, props) ==
    [kind |-> "InsertEdgeStmt", EdgeType |-> type, FromNode |-> from, ToNode |-> to,
     Properties |-> props]
UpdateNodeStmt(type, where, set) ==
    [kind |-> "UpdateNodeStmt", NodeType |-> type, Where |-> where, Set |-> set]
UpdateEdgeStmt(type, where, set) ==
    [kind |-> "UpdateEdgeStmt", EdgeType |-> type, Where |-> where, Set |-> set]
DeleteNodeStmt(type, where) == [kind |-> "DeleteNodeStmt", NodeType |-> type, Where |-> where]
DeleteEdgeStmt(type, where) == [kind |-> "DeleteEdgeStmt", EdgeType |-> type, Where |-> where]
MatchElement(type, alias) == [Type |-> type, Alias |-> alias, IsEdge |-> FALSE]
MatchStmt(pattern, where, return) ==
    [kind |-> "MatchStmt", Pattern |-> pattern, Where |-> where, Return |-> return]

\* The scripts the clients send, one command each:
\*   1  CREATE NODE A (x: STRING NOT NULL); CREATE EDGE E (FROM A ONE, TO A MANY);
\*   2  INSERT NODE A (x: '1');
\*   3  INSERT NODE A (x: '2');
\*   4  INSERT NODE A (x: '1'); INSERT EDGE E FROM A (x: '1') TO A (x: '1');
\*   5  INSERT NODE A (x: '1'); INSERT NODE B (x: '1');
\*   6  MATCH A;
\*   7  UPDATE NODE A SET x: '1' WHERE x: '2'; UPDATE EDGE E SET w: true;
\*   8  DELETE EDGE E WHERE w: true; DELETE NODE A WHERE x: '1';
\*   9  ALTER EDGE E ADD w: BOOL; ALTER NODE A ADD y: INT;
\*  10  INSERT EDGE E FROM A (1) TO A (2); DROP NODE A;
\* (DROP EDGE is in no script: the parser returns an error for it)
Scripts ==
    <<
      <<CreateNodeStmt("A", <<FieldDef("x", ParserType("BaseString"), FALSE, FALSE, TRUE, <<>>)>>),
        CreateEdgeStmt("E", ParserEndpoint("A", "CardOne"), ParserEndpoint("A", "CardMany"), <<>>)>>,
      <<InsertNodeStmt("A", <<X("1")>>)>>,
      <<InsertNodeStmt("A", <<X("2")>>)>>,
      <<InsertNodeStmt("A", <<X("1")>>),
        InsertEdgeStmt("E", NodeRef("A", <<>>, <<X("1")>>), NodeRef("A", <<>>, <<X("1")>>), <<>>)>>,
      <<InsertNodeStmt("A", <<X("1")>>), InsertNodeStmt("B", <<X("1")>>)>>,
      <<MatchStmt(<<MatchElement("A", "")>>, <<>>, <<>>)>>,
      <<UpdateNodeStmt("A", <<X("2")>>, <<X("1")>>), UpdateEdgeStmt("E", <<>>, <<W("true")>>)>>,
      <<DeleteEdgeStmt("E", <<W("true")>>), DeleteNodeStmt("A", <<X("1")>>)>>,
      <<AlterEdgeStmt("E", "AlterAddProp",
                      <<FieldDef("w", ParserType("BaseBool"), FALSE, FALSE, FALSE, <<>>)>>,
                      "", <<>>, <<>>),
        AlterNodeStmt("A", "AlterAddField",
                      <<FieldDef("y", ParserType("BaseInt"), FALSE, FALSE, FALSE, <<>>)>>,
                      "", <<>>)>>,
      <<InsertEdgeStmt("E", NodeRef("A", <<Literal("LitNumber", "1")>>, <<>>),
                       NodeRef("A", <<Literal("LitNumber", "2")>>, <<>>), <<>>),
        DropNodeStmt("A")>>
    >>
Statements == UNION {Range(Scripts[k]) : k \in DOMAIN Scripts}

\* The parser on the text of a command of this vocabulary: command k is the
\* text Cmd(k); the command after the last script is script 2 followed by a
\* statement that does not parse (INSERT NODE A (x: '1'); k;), for which the
\* parser returns the first statement and an error; any other text does not
\* parse
ParseScript(text) ==
    IF Len(text) = 2 /\ text[2] = 59 /\ (text[1] - 96) \in DOMAIN Scripts
    THEN [stmts |-> Scripts[text[1] - 96], errs |-> <<>>]
    ELSE IF Len(text) = 2 /\ text[2] = 59 /\ text[1] - 96 = Len(Scripts) + 1
    THEN [stmts |-> Scripts[2], errs |-> <<"unexpected token at start of statement">>]
    ELSE [stmts |-> <<>>, errs |-> <<"parse error">>]

\* The DDL cases of ExecuteStatement: the helper builds the event or refuses
ddlRequest(stmt) ==
    CASE stmt.kind = "CreateNodeStmt" -> executeCreateNode(stmt)
      [] stmt.kind = "CreateEdgeStmt" -> executeCreateEdge(stmt)
      [] stmt.kind = "AlterNodeStmt" -> executeAlterNode(stmt)
      [] stmt.kind = "AlterEdgeStmt" -> executeAlterEdge(stmt)
      [] stmt.kind = "DropNodeStmt" -> executeDropNode(stmt)
      [] stmt.kind = "DropEdgeStmt" -> executeDropEdge(stmt)

\* The DML cases of ExecuteStatement: the results the call may have
executeDML(h, c, g, stmt) ==
    CASE stmt.kind = "InsertNodeStmt" -> {executeInsertNode(h, c, g, stmt)}
      [] stmt.kind = "InsertEdgeStmt" -> executeInsertEdge(h, c, g, stmt)
      [] stmt.kind = "UpdateNodeStmt" -> {executeUpdateNode(g, stmt)}
      [] stmt.kind = "UpdateEdgeStmt" -> {executeUpdateEdge(g, stmt)}
      [] stmt.kind = "DeleteNodeStmt" -> {executeDeleteNode(g, stmt)}
      [] stmt.kind = "DeleteEdgeStmt" -> {executeDeleteEdge(g, stmt)}
      [] stmt.kind = "MatchStmt" -> {executeMatch(g, stmt)}
      [] OTHER -> {Done(g, "unsupported statement type")}

(***************************************************************************)
(* The server.  A connection's handler runs executeCommand in steps: one   *)
(* ExecuteStatement call per step, then the Append.  Nothing orders the    *)
(* steps of different connections.  The commit log is the one above with   *)
(* each writeEntry and each Flush taken as one step.  A shutdown is        *)
(* Server.Stop and CommitLog.Stop with no command in progress; the next    *)
(* process opens the registry and the commit log on the same directory     *)
(* and replays.                                                            *)
(***************************************************************************)
MaxCmds == 3

\* ExecuteStatement(w, stmt) in the current state: the results it may have, each
\* the registry, its files and the graph after the call, and the error returned
ddlApplied(res) ==
    [heap |-> Collect(res.heap, {res.cur}), cur |-> res.cur, off |-> res.off,
     lines |-> res.lines, manifest |-> res.manifest, graph |-> graph, err |-> res.err]
dmlDone(o) ==
    [heap |-> heap, cur |-> cur, off |-> ddlOffset, lines |-> ddlLog, manifest |-> manifest,
     graph |-> o.graph, err |-> o.err]
ddlExecuted(req) ==
    IF req.err # "" THEN dmlDone(Done(graph, req.err))
    ELSE ddlApplied(RegistryApplyResult(req.ev[1], "none"))
ExecuteStatement(stmt) ==
    IF stmt.kind \in DDLKinds THEN {ddlExecuted(ddlRequest(stmt))}
    ELSE {dmlDone(o) : o \in executeDML(heap, cur, graph, stmt)}

Stepped(o) ==
    /\ heap' = o.heap
    /\ cur' = o.cur
    /\ ddlOffset' = o.off
    /\ ddlLog' = o.lines
    /\ manifest' = o.manifest
    /\ graph' = o.graph
\* What the graph holds: a type with no edge left reads the same as a type that
\* never had one
GraphValue(g) ==
    [Nodes |-> g.Nodes,
     Edges |-> [t \in {u \in DOMAIN g.Edges : g.Edges[u] # <<>>} |-> g.Edges[t]],
     NextID |-> g.NextID]
Changes(o) ==
    \/ GraphValue(o.graph) # GraphValue(graph)
    \/ CatValue(o.heap, o.cur) # CatValue(heap, cur)

(***************************************************************************)
(* The executor on its own, as the executor tests use it: New(reg) on a    *)
(* registry opened on an empty store, then ExecuteStatements calls, each   *)
(* with the statements of one script.  A turn of the loop of               *)
(* ExecuteStatements is one step.                                          *)
(***************************************************************************)
MaxBatches == 3

P(name, kind, text) == Property(name, Literal(kind, text))
\* The scripts given to ExecuteStatements:
\*   1  CREATE NODE A (x: STRING NOT NULL); CREATE NODE B ();
\*      CREATE EDGE E (FROM A ONE, TO B MANY);
\*   2  INSERT NODE A (x: '1'); INSERT NODE B; INSERT NODE A (x: '2', w: true);
\*      INSERT EDGE E FROM A (x: '1') TO B;
\*      INSERT EDGE E FROM A ('1') TO B ('2') (w: true);
\*   3  INSERT NODE A (x: '2', w: true);
\*   4  MATCH A; INSERT NODE A (w: true);
\*   5  INSERT EDGE E FROM A (w: true) TO B;
\*   6  INSERT EDGE E FROM B TO A (x: '1') (w: true);
\*   7  INSERT EDGE E FROM A (x: '9') TO B; INSERT NODE B;
\*   8  INSERT EDGE F FROM A (x: '1') TO B;
\*   9  INSERT EDGE E FROM A (x: '1') TO A (x: '1');
\*  10  UPDATE NODE A SET x: '3', v: null WHERE w: true;
\*  11  UPDATE NODE A SET w: false;
\*  12  UPDATE EDGE E SET v: '1' WHERE w: true;
\*  13  UPDATE EDGE E SET w: false; UPDATE NODE B SET x: '1' WHERE x: '1';
\*  14  DELETE NODE A WHERE x: '1'; MATCH A;
\*  15  INSERT NODE A (x: '1'); INSERT NODE C (x: '1'); INSERT NODE A (x: '2');
Batches ==
    <<
      <<CreateNodeStmt("A", <<FieldDef("x", ParserType("BaseString"), FALSE, FALSE, TRUE, <<>>)>>),
        CreateNodeStmt("B", <<FieldDef("y", ParserType("BaseString"), FALSE, FALSE, FALSE, <<>>)>>),
        CreateEdgeStmt("E", ParserEndpoint("A", "CardOne"), ParserEndpoint("B", "CardMany"), <<>>)>>,
      <<InsertNodeStmt("A", <<P("x", "LitString", "1")>>),
        InsertNodeStmt("B", <<>>),
        InsertNodeStmt("A", <<P("x", "LitString", "2"), P("w", "LitBool", "true")>>),
        InsertEdgeStmt("E", NodeRef("A", <<>>, <<P("x", "LitString", "1")>>),
                       NodeRef("B", <<>>, <<>>), <<>>),
        InsertEdgeStmt("E", NodeRef("A", <<Literal("LitString", "1")>>, <<>>),
                       NodeRef("B", <<Literal("LitString", "2")>>, <<>>),
                       <<P("w", "LitBool", "true")>>)>>,
      <<InsertNodeStmt("A", <<P("x", "LitString", "2"), P("w", "LitBool", "true")>>)>>,
      <<MatchStmt(<<MatchElement("A", "")>>, <<>>, <<>>),
        InsertNodeStmt("A", <<P("w", "LitBool", "true")>>)>>,
      <<InsertEdgeStmt("E", NodeRef("A", <<>>, <<P("w", "LitBool", "true")>>),
                       NodeRef("B", <<>>, <<>>), <<>>)>>,
      <<InsertEdgeStmt("E", NodeRef("B", <<>>, <<>>),
                       NodeRef("A", <<>>, <<P("x", "LitString", "1")>>),
                       <<P("w", "LitBool", "true")>>)>>,
      <<InsertEdgeStmt("E", NodeRef("A", <<>>, <<P("x", "LitString", "9")>>),
                       NodeRef("B", <<>>, <<>>), <<>>),
        InsertNodeStmt("B", <<>>)>>,
      <<InsertEdgeStmt("F", NodeRef("A", <<>>, <<P("x", "LitString", "1")>>),
                       NodeRef("B", <<>>, <<>>), <<>>)>>,
      <<InsertEdgeStmt("E", NodeRef("A", <<>>, <<P("x", "LitString", "1")>>),
                       NodeRef("A", <<>>, <<P("x", "LitString", "1")>>), <<>>)>>,
      <<UpdateNodeStmt("A", <<P("w", "LitBool", "true")>>,
                       <<P("x", "LitString", "3"), P("v", "LitNull", "null")>>)>>,
      <<UpdateNodeStmt("A", <<>>, <<P("w", "LitBool", "false")>>)>>,
      <<UpdateEdgeStmt("E", <<P("w", "LitBool", "true")>>, <<P("v", "LitString", "1")>>)>>,
      <<UpdateEdgeStmt("E", <<>>, <<P("w", "LitBool", "false")>>),
        UpdateNodeStmt("B", <<P("x", "LitString", "1")>>, <<P("x", "LitString", "1")>>)>>,
      <<DeleteNodeStmt("A", <<P("x", "LitString", "1")>>),
        MatchStmt(<<MatchElement("A", "")>>, <<>>, <<>>)>>,
      <<InsertNodeStmt("A", <<P("x", "LitString", "1")>>),
        InsertNodeStmt("C", <<P("x", "LitString", "1")>>),
        InsertNodeStmt("A", <<P("x", "LitString", "2")>>)>>,
      <<AlterEdgeStmt("E", "AlterSetEndpoints", <<>>, "",
                      <<ParserEndpoint("B", "CardMany")>>, <<ParserEndpoint("A", "CardOne")>>)>>
    >>

\* New(reg) on a registry opened on an empty store
ExecutorStart == RegistryStart /\ SrvIdle /\ ExecIdle

\* ExecuteStatements(w, stmts) is called with the statements of script b
ExecuteStatements(b) ==
    /\ ex.pc = "idle"
    /\ Len(exhist) < MaxBatches
    /\ ex' = [pc |-> "loop", stmts |-> Batches[b], ran |-> <<>>, errs |-> <<>>,
              mutated |-> FALSE]
    /\ UNCHANGED <<heap, applyVars, regVars, logVars, srvVars, wrVars, exhist, psVars, stVars>>

\* A mutant of the loop: mutated is set by every statement that succeeds
mutatedByAny(m, st, err) == m \/ err = ""
\* The loop's mutated after ExecuteStatement(st) has returned err
mutated(m, st, err) == m \/ (err = "" /\ st.kind \in MutatingKinds)
\* A mutant of the loop: an error does not end it
returnsAtEnd(b, err) == Len(b.ran) + 1 = Len(b.stmts)
\* The loop returns on an error and after the last statement
returns(b, err) == err # "" \/ Len(b.ran) + 1 = Len(b.stmts)

\* One turn of the loop: ExecuteStatement(w, st) with result o
Turned(st, o) ==
    /\ Stepped(o)
    /\ IF returns(ex, o.err)
       THEN /\ exhist' = Append(exhist, [stmts |-> ex.stmts, ran |-> Append(ex.ran, st),
                                         errs |-> Append(ex.errs, o.err),
                                         mutated |-> mutated(ex.mutated, st, o.err),
                                         err |-> o.err])
            /\ ex' = NoBatch
       ELSE /\ ex' = [ex EXCEPT !.ran = Append(@, st), !.errs = Append(@, o.err),
                                !.mutated = mutated(@, st, o.err)]
            /\ UNCHANGED exhist
    /\ UNCHANGED <<snaps, rlast, rhist, applyVars, wrVars, logVars, srvPhase, conn, srvHist,
                   replay, srvSaved, psVars, stVars>>
Turn ==
    /\ ex.pc = "loop"
    /\ \E o \in ExecuteStatement(ex.stmts[Len(ex.ran) + 1]) :
            Turned(ex.stmts[Len(ex.ran) + 1], o)

ExecutorNext ==
    \/ \E b \in DOMAIN Batches : ExecuteStatements(b)
    \/ Turn

ExecutorInit == ExecutorStart /\ ApplyIdle /\ LogIdle /\ WritersIdle /\ ParserIdle /\ StoreIdle

SpecExecutor == ExecutorInit /\ [][ExecutorNext]_vars

\* The calls of ExecuteStatements so far, the one in progress included
BatchesSoFar == Range(exhist) \cup (IF ex.pc = "loop" THEN {ex} ELSE {})

\* The statement the parser returns for ALTER EDGE E SET FROM B MANY TO A ONE;
SetEndpoints ==
    AlterEdgeStmt("E", "AlterSetEndpoints", <<>>, "",
                  <<ParserEndpoint("B", "CardMany")>>, <<ParserEndpoint("A", "CardOne")>>)

\* ExecuteStatements has just returned from a batch whose last statement, the
\* ALTER EDGE ... SET FROM ... TO ..., ran without error
EndpointsSet ==
    /\ ex.pc = "idle" /\ exhist # <<>>
    /\ LET b == exhist[Len(exhist)] IN
           /\ b.err = "" /\ b.ran # <<>>
           /\ b.ran[Len(b.ran)] = SetEndpoints

\* C34: executing the parsed statement ALTER EDGE E SET FROM X <card> TO Y <card>,
\* X and Y being existing node types, publishes a catalog in which edge type E
\* has FROM endpoint X and TO endpoint Y with the given cardinalities.
C34_EndpointsSet ==
    (EndpointsSet /\ {"A", "B"} \subseteq DOMAIN CatValue(heap, cur).Nodes) =>
        /\ CatValue(heap, cur).Edges["E"].From = endpointOf(SetEndpoints.From[1])
        /\ CatValue(heap, cur).Edges["E"].To = endpointOf(SetEndpoints.To[1])

\* C22: ExecuteStatements runs the statements in order and stops at the first
\* one that fails, so later statements are not executed; the mutation bit it
\* returns is true if and only if at least one of the statements that executed
\* successfully is not a MATCH.
C22_ExecuteStatements ==
    /\ \A e \in BatchesSoFar :
            /\ Len(e.ran) <= Len(e.stmts)
            /\ e.ran = SubSeq(e.stmts, 1, Len(e.ran))
            /\ \A i \in 1..(Len(e.errs) - 1) : e.errs[i] = ""
    /\ \A e \in Range(exhist) :
            /\ e.err = e.errs[Len(e.errs)]
            /\ e.err = "" => e.ran = e.stmts
            /\ e.mutated <=> \E i \in DOMAIN e.ran : e.errs[i] = "" /\ e.ran[i].kind # "MatchStmt"

\* Three calls have returned: the schema; MATCH and a failing INSERT (no
\* mutation, an error); an INSERT that succeeds, one that fails and one that is
\* not executed (a mutation and an error)
C22_Witness ==
    /\ Len(exhist) = 3
    /\ exhist[1].stmts = Batches[1] /\ exhist[1].err = "" /\ exhist[1].mutated
    /\ exhist[2].stmts = Batches[4] /\ exhist[2].err # "" /\ ~exhist[2].mutated
    /\ Len(exhist[2].ran) = 2
    /\ exhist[3].stmts = Batches[15] /\ exhist[3].err # "" /\ exhist[3].mutated
    /\ Len(exhist[3].ran) = 2
    /\ DOMAIN graph.Nodes["A"] = {"2"}

\* The step is a turn of the loop on a statement of this kind, and the error
\* ExecuteStatement returned in it
TurnOn(kind) == ex.pc = "loop" /\ ex.stmts[Len(ex.ran) + 1].kind = kind /\ ex' # ex
TurnErr == IF ex'.pc = "loop" THEN ex'.errs[Len(ex'.errs)] ELSE exhist'[Len(exhist')].err

\* The properties satisfy every condition: each named property is present and
\* has the value of the literal
Satisfies(props, conds) ==
    \A i \in DOMAIN conds :
        /\ conds[i].Name \in DOMAIN props
        /\ props[conds[i].Name] =
              (CASE conds[i].Value.Kind = "LitBool" -> BoolValue(conds[i].Value.Text = "true")
                 [] conds[i].Value.Kind = "LitNull" -> NilValue
                 [] OTHER -> StringValue(conds[i].Value.Text))
\* The nodes of the graph a NodeRef can stand for
Referents(g, ref) ==
    IF ref.NodeType \notin DOMAIN g.Nodes THEN {}
    ELSE {id \in DOMAIN g.Nodes[ref.NodeType] :
             IF ref.ID # <<>> THEN id = ref.ID[1].Text
             ELSE Satisfies(g.Nodes[ref.NodeType][id], ref.Properties)}
EdgesOf(g, t) == IF t \in DOMAIN g.Edges THEN g.Edges[t] ELSE <<>>
\* What INSERT EDGE requires, in the catalog and the graph of this state
Insertable(st) ==
    /\ st.EdgeType \in DOMAIN CatValue(heap, cur).Edges
    /\ Referents(graph, st.FromNode) # {}
    /\ Referents(graph, st.ToNode) # {}
    /\ st.FromNode.NodeType = CatValue(heap, cur).Edges[st.EdgeType].From.Label
    /\ st.ToNode.NodeType = CatValue(heap, cur).Edges[st.EdgeType].To.Label
EdgeInserted(st) ==
    /\ TurnErr = ""
    /\ graph'.NextID = graph.NextID + 1
    /\ graph'.Nodes = graph.Nodes
    /\ \A t \in DOMAIN graph.Edges \ {st.EdgeType} :
            t \in DOMAIN graph'.Edges /\ graph'.Edges[t] = graph.Edges[t]
    /\ Len(EdgesOf(graph', st.EdgeType)) = Len(EdgesOf(graph, st.EdgeType)) + 1
    /\ SubSeq(graph'.Edges[st.EdgeType], 1, Len(EdgesOf(graph, st.EdgeType)))
          = EdgesOf(graph, st.EdgeType)
    /\ graph'.Edges[st.EdgeType][Len(graph'.Edges[st.EdgeType])].FromNodeID
          \in Referents(graph, st.FromNode)
    /\ graph'.Edges[st.EdgeType][Len(graph'.Edges[st.EdgeType])].ToNodeID
          \in Referents(graph, st.ToNode)

\* C28: INSERT EDGE stores an edge only if the edge type exists in the current
\* catalog, both node references resolve to existing nodes, the FROM
\* reference's type is the edge type's FROM label and the TO reference's type
\* its TO label; otherwise it returns an error and leaves the edge lists and the
\* id counter as they were.
C28_InsertEdgeChecked ==
    [][TurnOn("InsertEdgeStmt") =>
          IF Insertable(ex.stmts[Len(ex.ran) + 1])
          THEN EdgeInserted(ex.stmts[Len(ex.ran) + 1])
          ELSE /\ TurnErr # ""
               /\ graph'.Edges = graph.Edges
               /\ graph'.NextID = graph.NextID]_vars

\* One INSERT EDGE was refused because its FROM reference names type B, one
\* because its TO reference names type A, both references resolving to nodes;
\* the two edges inserted before are all there is
C28_Witness ==
    /\ Len(exhist) = 3
    /\ exhist[2].stmts = Batches[2] /\ exhist[2].err = ""
    /\ exhist[3].stmts \in {Batches[6], Batches[9]}
    /\ exhist[3].err \in {"FROM node type does not match edge FROM type",
                          "TO node type does not match edge TO type"}
    /\ Len(graph.Edges["E"]) = 2
    /\ graph.NextID = 6

\* The statements executed so far, each with the error it returned
TurnsSoFar == UNION {{<<e.ran[i], e.errs[i]>> : i \in 1..Len(e.ran)} : e \in BatchesSoFar}
\* A node has been stored before; a statement has taken a value of the counter
\* before (an INSERT NODE of a known type takes one even if it then fails)
StoredBefore == \E x \in TurnsSoFar : x[1].kind = "InsertNodeStmt" /\ x[2] = ""
TookBefore ==
    \E x \in TurnsSoFar :
        \/ x[1].kind = "InsertNodeStmt" /\ x[2] # "node type does not exist"
        \/ x[1].kind = "InsertEdgeStmt" /\ x[2] = ""
NodesOf(g, t) == IF t \in DOMAIN g.Nodes THEN g.Nodes[t] ELSE <<>>
\* The counter values below n, as node ids and as edge ids
Below(n) == {FormatInt(k) : k \in 1..(n - 1)}
EdgeBelow(n) == {"edge_" \o FormatInt(k) : k \in 1..(n - 1)}
\* No two stored entities have the same counter value, and every value given
\* is below the counter
DistinctIds(g) ==
    /\ g.NextID >= 1
    /\ \A t \in DOMAIN g.Nodes : DOMAIN g.Nodes[t] \subseteq Below(g.NextID)
    /\ \A t, u \in DOMAIN g.Nodes : t # u => DOMAIN g.Nodes[t] \cap DOMAIN g.Nodes[u] = {}
    /\ \A t \in DOMAIN g.Edges : \A i \in DOMAIN g.Edges[t] : g.Edges[t][i].ID \in EdgeBelow(g.NextID)
    /\ \A t, u \in DOMAIN g.Edges : \A i \in DOMAIN g.Edges[t], j \in DOMAIN g.Edges[u] :
            g.Edges[t][i].ID = g.Edges[u][j].ID => (t = u /\ i = j)
    /\ \A t \in DOMAIN g.Nodes, u \in DOMAIN g.Edges : \A i \in DOMAIN g.Edges[u] :
            \A id \in DOMAIN g.Nodes[t] : g.Edges[u][i].ID # "edge_" \o id
\* The turn stores one node of type t under id, carrying _id
StoresNode(t, id) ==
    /\ t \in DOMAIN graph'.Nodes
    /\ DOMAIN graph'.Nodes[t] = DOMAIN NodesOf(graph, t) \cup {id}
    /\ id \notin DOMAIN NodesOf(graph, t)
    /\ "_id" \in DOMAIN graph'.Nodes[t][id]
    /\ graph'.Nodes[t][id]["_id"] = StringValue(id)

\* C29 as stated: node ids and edge ids come from one counter that starts at 1
\* and only grows; the first inserted node gets id "1" and carries the property
\* _id equal to its id; no two stored entities were given the same counter
\* value.
C29_IdsAsStated ==
    /\ [](DistinctIds(graph))
    /\ [][/\ graph'.NextID >= graph.NextID
          /\ (TurnOn("InsertNodeStmt") /\ TurnErr = "" /\ ~StoredBefore) =>
                StoresNode(ex.stmts[Len(ex.ran) + 1].NodeType, "1")]_vars

\* C29, amended: the counter starts at 1 and only grows; an INSERT NODE that
\* succeeds stores the node under the counter's value before it, carrying _id
\* equal to that id, and adds 1 to the counter; the first inserted node gets
\* id "1" if no earlier statement took a value of the counter (an INSERT NODE
\* that fails for a missing required field has taken one); no two stored
\* entities were given the same counter value.
C29_IdsFromCounter ==
    /\ [](DistinctIds(graph))
    /\ [][/\ graph'.NextID >= graph.NextID
          /\ (TurnOn("InsertNodeStmt") /\ TurnErr = "") =>
                /\ StoresNode(ex.stmts[Len(ex.ran) + 1].NodeType, FormatInt(graph.NextID))
                /\ graph'.NextID = graph.NextID + 1
                /\ ~TookBefore => graph.NextID = 1
          /\ (TurnOn("InsertNodeStmt") /\ TurnErr = "required field is missing") =>
                graph'.NextID = graph.NextID + 1]_vars

\* The first node stored has id "2": an INSERT NODE without the required field
\* failed before it
C29_Witness ==
    /\ Len(exhist) = 3
    /\ exhist[2].stmts = Batches[4]
    /\ exhist[2].errs = <<"", "required field is missing">>
    /\ exhist[3].stmts = Batches[3] /\ exhist[3].err = ""
    /\ DOMAIN graph.Nodes["A"] = {"2"}
    /\ graph.Nodes["A"]["2"]["_id"] = StringValue("2")
    /\ graph.NextID = 3

\* The registry and its store are as they were
SchemaKept == UNCHANGED <<cur, ddlLog, ddlOffset, manifest, snaps>>

\* C36 as stated: a failed INSERT NODE (unknown node type, or a NotNull field
\* absent from the property list) leaves the executor state exactly as it was:
\* no node is stored, the id counter is not advanced and no per-type bucket is
\* created.
C36_FailedInsertChangesNothing ==
    [][(TurnOn("InsertNodeStmt") /\ TurnErr # "") => (graph' = graph /\ SchemaKept)]_vars

\* C36, amended: a failed INSERT NODE stores no node and changes no stored node
\* or edge, nor the catalog.  If the node type is unknown the executor state is
\* exactly as it was.  If a NotNull field is absent the id counter has been
\* advanced by one and the type has a bucket, empty if it had none before (so a
\* later UPDATE NODE or DELETE NODE of the type finds a bucket).
C36_FailedInsertStoresNothing ==
    [][(TurnOn("InsertNodeStmt") /\ TurnErr # "") =>
          /\ SchemaKept
          /\ graph'.Edges = graph.Edges
          /\ \A t \in DOMAIN graph.Nodes :
                  t \in DOMAIN graph'.Nodes /\ graph'.Nodes[t] = graph.Nodes[t]
          /\ \A t \in DOMAIN graph'.Nodes \ DOMAIN graph.Nodes : graph'.Nodes[t] = EmptyMap
          /\ TurnErr \in {"node type does not exist", "required field is missing"}
          /\ TurnErr = "node type does not exist" => graph' = graph
          /\ TurnErr = "required field is missing" =>
                  /\ graph'.NextID = graph.NextID + 1
                  /\ DOMAIN graph'.Nodes
                        = DOMAIN graph.Nodes \cup {ex.stmts[Len(ex.ran) + 1].NodeType}]_vars

\* INSERT NODE A has failed before the type was created, and then, without the
\* required field x, after: A has an empty bucket and the next id is 2
C36_Witness ==
    /\ Len(exhist) = 3
    /\ exhist[1].stmts = Batches[3] /\ exhist[1].err = "node type does not exist"
    /\ exhist[3].stmts = Batches[4]
    /\ exhist[3].errs = <<"", "required field is missing">>
    /\ DOMAIN graph.Nodes = {"A"} /\ graph.Nodes["A"] = EmptyMap
    /\ graph.NextID = 2

\* The node ids stored under type t; node ids are counter values, so an id is
\* under one type at most and stays there
NodeIds(g, t) == IF t \in DOMAIN g.Nodes THEN DOMAIN g.Nodes[t] ELSE {}
Attached(g, e) ==
    /\ \E t \in DOMAIN g.Nodes : e.FromNodeID \in NodeIds(g, t)
    /\ \E t \in DOMAIN g.Nodes : e.ToNodeID \in NodeIds(g, t)
\* The edge an INSERT EDGE has just stored joins nodes stored under the labels
\* the catalog gives its type
AttachedAsDeclared(st) ==
    LET e == graph'.Edges[st.EdgeType][Len(graph'.Edges[st.EdgeType])]
        et == CatValue(heap, cur).Edges[st.EdgeType]
    IN /\ e.FromNodeID \in NodeIds(graph', et.From.Label)
       /\ e.ToNodeID \in NodeIds(graph', et.To.Label)

\* C38: after any sequence of INSERT, UPDATE and DELETE statements, every stored
\* edge's FromNodeID and ToNodeID are ids of nodes that exist in the graph data,
\* under the node types that were the edge type's FROM and TO labels when the
\* edge was inserted.
C38_EdgesAttached ==
    /\ [][(TurnOn("InsertEdgeStmt") /\ TurnErr = "") =>
              AttachedAsDeclared(ex.stmts[Len(ex.ran) + 1])]_vars
    /\ [](\A t \in DOMAIN graph.Edges :
              \A i \in DOMAIN graph.Edges[t] : Attached(graph, graph.Edges[t][i]))

\* The value a literal of SET stands for
SetValue(lit) ==
    CASE lit.Kind = "LitBool" -> BoolValue(lit.Text = "true")
      [] lit.Kind = "LitNull" -> NilValue
      [] OTHER -> StringValue(lit.Text)
\* props with the SET fields overwritten: a field named more than once gets the
\* last value, the properties not named are as they were
Overwritten(props, set) ==
    [n \in DOMAIN props \cup {set[i].Name : i \in DOMAIN set} |->
        IF \E i \in DOMAIN set : set[i].Name = n
        THEN SetValue(set[CHOOSE i \in DOMAIN set :
                              /\ set[i].Name = n
                              /\ \A j \in DOMAIN set : set[j].Name = n => j <= i].Value)
        ELSE props[n]]
NodesUpdated(st) ==
    /\ DOMAIN graph'.Nodes = DOMAIN graph.Nodes
    /\ \A t \in DOMAIN graph.Nodes \ {st.NodeType} : graph'.Nodes[t] = graph.Nodes[t]
    /\ DOMAIN graph'.Nodes[st.NodeType] = DOMAIN graph.Nodes[st.NodeType]
    /\ \A id \in DOMAIN graph.Nodes[st.NodeType] :
          graph'.Nodes[st.NodeType][id] =
             IF Satisfies(graph.Nodes[st.NodeType][id], st.Where)
             THEN Overwritten(graph.Nodes[st.NodeType][id], st.Set)
             ELSE graph.Nodes[st.NodeType][id]
    /\ GraphValue(graph').Edges = GraphValue(graph).Edges
    /\ graph'.NextID = graph.NextID
EdgesUpdated(st) ==
    /\ graph'.Nodes = graph.Nodes
    /\ graph'.NextID = graph.NextID
    /\ \A t \in DOMAIN GraphValue(graph).Edges \cup DOMAIN GraphValue(graph').Edges :
          /\ Len(EdgesOf(graph', t)) = Len(EdgesOf(graph, t))
          /\ t # st.EdgeType => EdgesOf(graph', t) = EdgesOf(graph, t)
    /\ \A i \in DOMAIN EdgesOf(graph, st.EdgeType) :
          graph'.Edges[st.EdgeType][i] =
             IF Satisfies(graph.Edges[st.EdgeType][i].Properties, st.Where)
             THEN [graph.Edges[st.EdgeType][i] EXCEPT
                      !.Properties = Overwritten(@, st.Set)]
             ELSE graph.Edges[st.EdgeType][i]

\* C30: UPDATE NODE and UPDATE EDGE overwrite the SET fields on exactly the
\* entities of the target type whose properties equal every WHERE condition (an
\* entity lacking a WHERE property does not match, an empty WHERE matches all);
\* the entities that do not match, the entities of other types and the
\* properties not named in SET are unchanged.
C30_UpdateFrame ==
    [][/\ TurnOn("UpdateNodeStmt") =>
             IF ex.stmts[Len(ex.ran) + 1].NodeType \in DOMAIN graph.Nodes
             THEN TurnErr = "" /\ NodesUpdated(ex.stmts[Len(ex.ran) + 1])
             ELSE GraphValue(graph') = GraphValue(graph)
       /\ TurnOn("UpdateEdgeStmt") =>
             TurnErr = "" /\ EdgesUpdated(ex.stmts[Len(ex.ran) + 1])]_vars

\* UPDATE NODE A SET x: '3', v: null WHERE w: true has run on two nodes of type
\* A: the one with w = true is overwritten, the one without w is as it was
C30_Witness ==
    /\ Len(exhist) = 3
    /\ exhist[2].stmts = Batches[2] /\ exhist[2].err = ""
    /\ exhist[3].stmts = Batches[10] /\ exhist[3].err = ""
    /\ graph.Nodes["A"]["3"]["x"] = StringValue("3")
    /\ graph.Nodes["A"]["3"]["v"] = NilValue
    /\ graph.Nodes["A"]["3"]["w"] = BoolValue(TRUE)
    /\ graph.Nodes["A"]["1"] = [x |-> StringValue("1"), _id |-> StringValue("1")]
    /\ DOMAIN graph.Nodes["B"] = {"2"}

\* bufio.Writer calls, each as one step
bufWrite(buf, data) ==
    [mem |-> Overwrite(buf.mem, buf.n, data), n |-> buf.n + Len(data), err |-> buf.err]
RECURSIVE bufWrites(_, _)
bufWrites(buf, ops) ==
    IF ops = <<>> THEN buf ELSE bufWrites(bufWrite(buf, Head(ops).data), Tail(ops))
RECURSIVE drained(_, _, _)
drained(format, buf, queue) ==
    IF queue = <<>> THEN buf
    ELSE drained(format, bufWrites(buf, writeEntry(format, Head(queue))), Tail(queue))
Flushed(file, buf) == file \o SubSeq(buf.mem, 1, buf.n)
NewWriter == [mem |-> <<>>, n |-> 0, err |-> FALSE]

\* main() on an empty data directory, up to the accept loop
ServerStart ==
    /\ clFormat \in {"text", "binary"}
    /\ clFile = <<>>
    /\ clFileOpen = TRUE
    /\ clBuf = NewWriter
    /\ clQueue = <<>>
    /\ clStarted = TRUE
    /\ clClosed = FALSE
    /\ clDone = FALSE
    /\ clMu = ""
    /\ clPc = [g \in Goroutines |-> IF g = "writer" THEN "select" ELSE "idle"]
    /\ clTodo = [g \in Goroutines |-> <<>>]
    /\ clLoc = [g \in Goroutines |-> -1]
    /\ clCur = [g \in Goroutines |-> 0]
    /\ clCalls = <<>>
    /\ graph = NewGraph
    /\ srvPhase = "listening"
    /\ conn = [c \in Conns |-> IdleConn]
    /\ srvHist = <<>>
    /\ replay = [todo |-> <<>>, stmts |-> <<>>, err |-> FALSE, base |-> 0]
    /\ srvSaved = [cat |-> EmptyCatalogValue, graph |-> NewGraph]

logLocals == <<clMu, clPc, clTodo, clLoc, clCur, clCalls>>
InProgress == Cardinality({c \in Conns : conn[c].pc = "exec"})

\* handleConnection has read command k, a line ending in a semicolon, and
\* calls executeCommand, which trims and parses it.  (A command that does not
\* parse is answered with the errors and changes nothing.)
Receive(c, k) ==
    /\ srvPhase = "listening"
    /\ conn[c].pc = "idle"
    /\ Len(srvHist) + InProgress < MaxCmds
    /\ ParseScript(TrimSpace(Cmd(k) \o <<32>>)).errs = <<>>
    /\ ParseScript(TrimSpace(Cmd(k) \o <<32>>)).stmts # <<>>
    /\ conn' = [conn EXCEPT ![c] = [pc |-> "exec", cmd |-> TrimSpace(Cmd(k) \o <<32>>),
                                    stmts |-> ParseScript(TrimSpace(Cmd(k) \o <<32>>)).stmts,
                                    mutated |-> FALSE, changed |-> FALSE]]
    /\ UNCHANGED <<heap, applyVars, wrVars, exVars, psVars, stVars, regVars, logVars, graph, srvPhase, srvHist, replay, srvSaved>>

\* ExecuteStatements: one turn of its loop, with result o of ExecuteStatement.
\* On an error, or after the last statement, it returns and executeCommand
\* goes on: to the Append when there was no error and a mutation, else back.
Returning(c, o) == o.err # "" \/ Len(conn[c].stmts) = 1
\* A mutant of ExecuteStatements: every statement that succeeds sets mutated
MutatedByAny(c, o) == conn[c].mutated \/ o.err = ""
Mutated(c, o) == conn[c].mutated \/ (o.err = "" /\ Head(conn[c].stmts).kind \in MutatingKinds)
Executed(c, o) ==
    /\ Stepped(o)
    /\ IF ~Returning(c, o)
       THEN /\ conn' = [conn EXCEPT ![c].stmts = Tail(@), ![c].mutated = Mutated(c, o),
                                    ![c].changed = @ \/ Changes(o)]
            /\ UNCHANGED srvHist
       ELSE /\ srvHist' = Append(srvHist, [cmd |-> conn[c].cmd, err |-> o.err,
                                           mutated |-> Mutated(c, o),
                                           changed |-> conn[c].changed \/ Changes(o)])
            /\ conn' = IF o.err = "" /\ Mutated(c, o)
                       THEN [conn EXCEPT ![c].pc = "append", ![c].stmts = <<>>]
                       ELSE [conn EXCEPT ![c] = IdleConn]
    /\ UNCHANGED <<snaps, rlast, rhist, applyVars, wrVars, exVars, psVars, stVars, logVars, srvPhase, replay, srvSaved>>
Execute(c) ==
    /\ conn[c].pc = "exec"
    /\ \E o \in ExecuteStatement(Head(conn[c].stmts)) : Executed(c, o)

\* executeCommand: commitLog.Append(toAppend).  The command goes into the queue,
\* or when the queue is full it is written and flushed under the mutex.
toAppend(command) ==
    IF TrimSpace(command) # <<>> /\ TrimSpace(command)[Len(TrimSpace(command))] = 59
    THEN TrimSpace(command) ELSE TrimSpace(command) \o <<59>>
AppendCommand(c) ==
    /\ conn[c].pc = "append"
    /\ IF Len(clQueue) < QueueCap
       THEN /\ clQueue' = Append(clQueue, toAppend(conn[c].cmd))
            /\ UNCHANGED <<clFile, clBuf>>
       ELSE /\ clFile' = Flushed(clFile, bufWrites(clBuf, writeEntry(clFormat, toAppend(conn[c].cmd))))
            /\ clBuf' = [bufWrites(clBuf, writeEntry(clFormat, toAppend(conn[c].cmd))) EXCEPT !.n = 0]
            /\ UNCHANGED clQueue
    /\ conn' = [conn EXCEPT ![c] = IdleConn]
    /\ UNCHANGED <<heap, applyVars, wrVars, exVars, psVars, stVars, regVars, clFormat, clFileOpen, clStarted, clClosed, clDone,
                   logLocals, graph, srvPhase, srvHist, replay, srvSaved>>

\* CommitLog.run: a command is received from the queue and written
LogWrite ==
    /\ srvPhase \in {"listening", "restarted"}
    /\ clQueue # <<>>
    /\ clQueue' = Tail(clQueue)
    /\ clBuf' = bufWrites(clBuf, writeEntry(clFormat, Head(clQueue)))
    /\ UNCHANGED <<heap, applyVars, wrVars, exVars, psVars, stVars, regVars, clFormat, clFile, clFileOpen, clStarted, clClosed,
                   clDone, logLocals, srvVars>>

\* CommitLog.run: the ticker fires
LogTick ==
    /\ srvPhase \in {"listening", "restarted"}
    /\ clBuf.n > 0
    /\ clFile' = Flushed(clFile, clBuf)
    /\ clBuf' = [clBuf EXCEPT !.n = 0]
    /\ UNCHANGED <<heap, applyVars, wrVars, exVars, psVars, stVars, regVars, clFormat, clFileOpen, clQueue, clStarted, clClosed,
                   clDone, logLocals, srvVars>>

\* The shutdown: Server.Stop, then CommitLog.Stop (the writer drains the queue
\* and flushes, the file is synced and closed), then the process exits
Shutdown ==
    /\ srvPhase = "listening"
    /\ \A c \in Conns : conn[c].pc = "idle"
    /\ srvPhase' = "stopped"
    /\ srvSaved' = [cat |-> CatValue(heap, cur), graph |-> graph]
    /\ clFile' = Flushed(clFile, drained(clFormat, clBuf, clQueue))
    /\ clBuf' = [drained(clFormat, clBuf, clQueue) EXCEPT !.n = 0]
    /\ clQueue' = <<>>
    /\ clClosed' = TRUE
    /\ clDone' = TRUE
    /\ clFileOpen' = FALSE
    /\ UNCHANGED <<heap, applyVars, wrVars, exVars, psVars, stVars, regVars, clFormat, clStarted, logLocals, graph, conn,
                   srvHist, replay>>

\* The next process on the same directory: catalog.Open, NewServer,
\* OpenCommitLogWithFormat, Start, and Server.Start up to the call of Replay,
\* which reads the commit log
Booted(o, r) ==
    /\ srvPhase = "stopped"
    /\ heap' = o.heap
    /\ cur' = o.cur
    /\ ddlOffset' = o.off
    /\ graph' = NewGraph
    /\ clBuf' = NewWriter
    /\ clFileOpen' = TRUE
    /\ clClosed' = FALSE
    /\ clDone' = FALSE
    /\ srvPhase' = IF o.err # "" THEN "failed" ELSE "replaying"
    /\ replay' = [todo |-> r.cmds, stmts |-> <<>>, err |-> r.err, base |-> Len(clFile)]
    /\ UNCHANGED <<applyVars, wrVars, exVars, psVars, stVars, ddlLog, manifest, snaps, rlast, rhist, clFormat, clFile, clQueue,
                   clStarted, logLocals, conn, srvHist, srvSaved>>
Boot == Booted(Open(manifest, snaps, ddlLog), Replay(clFormat, clFile))

\* Replay calls the callback with the next command: it is parsed
ReplayLine ==
    /\ srvPhase = "replaying"
    /\ replay.stmts = <<>>
    /\ replay.todo # <<>>
    /\ IF ParseScript(Head(replay.todo)).errs # <<>>
       THEN /\ srvPhase' = "failed"
            /\ UNCHANGED replay
       ELSE /\ replay' = [replay EXCEPT !.todo = Tail(@),
                                        !.stmts = ParseScript(Head(replay.todo)).stmts]
            /\ UNCHANGED srvPhase
    /\ UNCHANGED <<heap, applyVars, wrVars, exVars, psVars, stVars, regVars, logVars, graph, conn, srvHist, srvSaved>>

\* The callback: s.exec.ExecuteStatement(nil, st) for the next statement
Replayed(o) ==
    /\ Stepped(o)
    /\ IF o.err # ""
       THEN /\ srvPhase' = "failed"
            /\ UNCHANGED replay
       ELSE /\ replay' = [replay EXCEPT !.stmts = Tail(@)]
            /\ UNCHANGED srvPhase
    /\ UNCHANGED <<snaps, rlast, rhist, applyVars, wrVars, exVars, psVars, stVars, logVars, conn, srvHist, srvSaved>>
ReplayStatement ==
    /\ srvPhase = "replaying"
    /\ replay.stmts # <<>>
    /\ \E o \in ExecuteStatement(Head(replay.stmts)) : Replayed(o)

\* Replay returns: an error when the file ends in a bad record, else nil, and
\* Server.Start sets replaying to false and accepts connections
ReplayReturn ==
    /\ srvPhase = "replaying"
    /\ replay.stmts = <<>>
    /\ replay.todo = <<>>
    /\ srvPhase' = IF replay.err THEN "failed" ELSE "restarted"
    /\ UNCHANGED <<heap, applyVars, wrVars, exVars, psVars, stVars, regVars, logVars, graph, conn, srvHist, replay, srvSaved>>

ServerNext ==
    \/ \E c \in Conns, k \in DOMAIN Scripts : Receive(c, k)
    \/ \E c \in Conns : Execute(c)
    \/ \E c \in Conns : AppendCommand(c)
    \/ LogWrite
    \/ LogTick
    \/ Shutdown
    \/ Boot
    \/ ReplayLine
    \/ ReplayStatement
    \/ ReplayReturn

ServerInit == RegistryStart /\ ApplyIdle /\ ServerStart /\ WritersIdle /\ ExecIdle /\ ParserIdle /\ StoreIdle

SpecServer == ServerInit /\ [][ServerNext]_vars

(***************************************************************************)
(* A server process started on a directory that earlier processes left:    *)
(* Server.Start replays the commit log it finds, then serves one client    *)
(* connection.                                                             *)
(***************************************************************************)
MaxServed == 2

\* What the earlier processes left.  The schema command and an INSERT were
\* executed and logged; the process was stopped cleanly, or killed while the
\* last record was being written (cut: the bytes that did not reach the file),
\* or two connections had their commands logged in the other order.
SchemaEvents == [i \in 1..2 |-> ddlRequest(Scripts[1][i]).ev[1]]
SchemaLog ==
    AppendDDL(AppendDDL(<<>>, SchemaEvents[1], "none").lines, SchemaEvents[2], "none").lines
SchemaManifest == UpdateManifest(<<>>, EmptyMap, 2, Len(SchemaLog), "none").manifest
PriorRuns ==
    {[ddl |-> <<>>, manifest |-> <<>>, cmds |-> <<>>, cut |-> 0],
     [ddl |-> SchemaLog, manifest |-> SchemaManifest, cmds |-> <<Cmd(1), Cmd(2)>>, cut |-> 0],
     [ddl |-> SchemaLog, manifest |-> SchemaManifest, cmds |-> <<Cmd(1), Cmd(2)>>, cut |-> 2],
     [ddl |-> SchemaLog, manifest |-> SchemaManifest, cmds |-> <<Cmd(2), Cmd(1)>>, cut |-> 0]}
LogFile(format, run) ==
    SubSeq(Flushed(<<>>, drained(format, NewWriter, run.cmds)), 1,
           Len(Flushed(<<>>, drained(format, NewWriter, run.cmds))) - run.cut)

StartupStart(format, run) ==
    /\ heap = EmptyHeap
    /\ cur = 0
    /\ ddlOffset = 0
    /\ ddlLog = run.ddl
    /\ manifest = run.manifest
    /\ snaps = EmptyMap
    /\ rlast = NoCall
    /\ rhist = <<>>
    /\ clFormat = format
    /\ clFile = LogFile(format, run)
    /\ clFileOpen = FALSE
    /\ clBuf = NewWriter
    /\ clQueue = <<>>
    /\ clStarted = TRUE
    /\ clClosed = TRUE
    /\ clDone = TRUE
    /\ clMu = ""
    /\ clPc = [g \in Goroutines |-> IF g = "writer" THEN "select" ELSE "idle"]
    /\ clTodo = [g \in Goroutines |-> <<>>]
    /\ clLoc = [g \in Goroutines |-> -1]
    /\ clCur = [g \in Goroutines |-> 0]
    /\ clCalls = <<>>
    /\ graph = NewGraph
    /\ srvPhase = "stopped"
    /\ conn = [c \in Conns |-> IdleConn]
    /\ srvHist = <<>>
    /\ replay = [todo |-> <<>>, stmts |-> <<>>, err |-> FALSE, base |-> 0]
    /\ srvSaved = [cat |-> EmptyCatalogValue, graph |-> NewGraph]

\* The lines a client sends: the commands of Scripts, one that parses with an
\* error, and (0) a line of white space
Commands == DOMAIN Scripts \cup {Len(Scripts) + 1} \cup {0}
Line(k) == IF k = 0 THEN <<32, 9>> ELSE Cmd(k)

\* A mutant of the accept loop: connections are served while Replay is running
ServeEarly(c, k) ==
    /\ srvPhase \in {"replaying", "restarted"}
    /\ conn[c].pc = "idle"
    /\ Len(srvHist) + InProgress < MaxServed
    /\ IF TrimSpace(Line(k)) = <<>> THEN UNCHANGED <<conn, srvHist>>
       ELSE IF ParseScript(TrimSpace(Line(k) \o <<32>>)).errs # <<>>
          \/ ParseScript(TrimSpace(Line(k) \o <<32>>)).stmts = <<>>
       THEN /\ srvHist' = Append(srvHist, [cmd |-> TrimSpace(Line(k) \o <<32>>),
                                           err |-> "parse errors", mutated |-> FALSE,
                                           changed |-> FALSE])
            /\ UNCHANGED conn
       ELSE /\ conn' = [conn EXCEPT ![c] =
                            [pc |-> "exec", cmd |-> TrimSpace(Line(k) \o <<32>>),
                             stmts |-> ParseScript(TrimSpace(Line(k) \o <<32>>)).stmts,
                             mutated |-> FALSE, changed |-> FALSE]]
            /\ UNCHANGED srvHist
    /\ UNCHANGED <<heap, applyVars, wrVars, exVars, psVars, stVars, regVars, logVars, graph, srvPhase, replay, srvSaved>>

\* A mutant of executeCommand: the statements that parsed are executed whether
\* or not the parser reported errors
ServeParsed(c, k) ==
    /\ srvPhase = "restarted"
    /\ conn[c].pc = "idle"
    /\ Len(srvHist) + InProgress < MaxServed
    /\ IF TrimSpace(Line(k)) = <<>> THEN UNCHANGED <<conn, srvHist>>
       ELSE IF ParseScript(TrimSpace(Line(k) \o <<32>>)).stmts = <<>>
       THEN /\ srvHist' = Append(srvHist, [cmd |-> TrimSpace(Line(k) \o <<32>>),
                                           err |-> "parse errors", mutated |-> FALSE,
                                           changed |-> FALSE])
            /\ UNCHANGED conn
       ELSE /\ conn' = [conn EXCEPT ![c] =
                            [pc |-> "exec", cmd |-> TrimSpace(Line(k) \o <<32>>),
                             stmts |-> ParseScript(TrimSpace(Line(k) \o <<32>>)).stmts,
                             mutated |-> FALSE, changed |-> FALSE]]
            /\ UNCHANGED srvHist
    /\ UNCHANGED <<heap, applyVars, wrVars, exVars, psVars, stVars, regVars, logVars, graph, srvPhase, replay, srvSaved>>

\* The accept loop of Server.Start, reached when Replay has returned nil, and
\* handleConnection: command k is read and executeCommand trims and parses it.
\* With parse errors, or with no statement, it answers and returns.
Serve(c, k) ==
    /\ srvPhase = "restarted"
    /\ conn[c].pc = "idle"
    /\ Len(srvHist) + InProgress < MaxServed
    /\ IF TrimSpace(Line(k)) = <<>> THEN UNCHANGED <<conn, srvHist>>
       ELSE IF ParseScript(TrimSpace(Line(k) \o <<32>>)).errs # <<>>
          \/ ParseScript(TrimSpace(Line(k) \o <<32>>)).stmts = <<>>
       THEN /\ srvHist' = Append(srvHist, [cmd |-> TrimSpace(Line(k) \o <<32>>),
                                           err |-> "parse errors", mutated |-> FALSE,
                                           changed |-> FALSE])
            /\ UNCHANGED conn
       ELSE /\ conn' = [conn EXCEPT ![c] =
                            [pc |-> "exec", cmd |-> TrimSpace(Line(k) \o <<32>>),
                             stmts |-> ParseScript(TrimSpace(Line(k) \o <<32>>)).stmts,
                             mutated |-> FALSE, changed |-> FALSE]]
            /\ UNCHANGED srvHist
    /\ UNCHANGED <<heap, applyVars, wrVars, exVars, psVars, stVars, regVars, logVars, graph, srvPhase, replay, srvSaved>>

StartupNext ==
    \/ Boot
    \/ ReplayLine
    \/ ReplayStatement
    \/ ReplayReturn
    \/ \E k \in Commands : Serve(1, k)
    \/ \E c \in Conns : Execute(c)
    \/ \E c \in Conns : AppendCommand(c)
    \/ LogWrite
    \/ LogTick

StartupInit ==
    /\ \E format \in {"text", "binary"}, run \in PriorRuns : StartupStart(format, run)
    /\ ApplyIdle
    /\ WritersIdle
    /\ ExecIdle
    /\ ParserIdle /\ StoreIdle

SpecStartup == StartupInit /\ [][StartupNext]_vars

\* C37: startup replay of the commit log leaves the persistent catalog state as
\* it found it: from the start of the process to the end of replay no event is
\* appended to the DDL log and the manifest does not change (so starting and
\* stopping a server any number of times without client commands leaves the
\* same DDL log).
C37_ReplayKeepsStore ==
    [][(srvPhase \in {"stopped", "replaying"}) =>
            (ddlLog' = ddlLog /\ manifest' = manifest /\ snaps' = snaps)]_vars

\* The commands that were appended, in the order ExecuteStatements returned for them
AppendedInOrder ==
    [i \in 1..Len(SelectSeq(srvHist, LAMBDA e : e.err = "" /\ e.mutated)) |->
        toAppend(SelectSeq(srvHist, LAMBDA e : e.err = "" /\ e.mutated)[i].cmd)]
\* The records of the commit log: in the file, in the buffer and in the queue
Records == Replay(clFormat, Flushed(clFile, clBuf)).cmds \o clQueue
Count(s, x) == Cardinality({i \in DOMAIN s : s[i] = x})
Quiet == \A c \in Conns : conn[c].pc = "idle"

\* C19: Server.Start executes no client command before the replay of the commit
\* log has finished; when a replayed record fails to parse, or one of its
\* statements fails to execute, Start returns an error and no client connection
\* is ever accepted.  Replay goes past a record only when it parsed, past a
\* statement only when it executed without error, and ends well only when the
\* whole file was read without error.
C19_ReplayBeforeClients ==
    /\ [](srvPhase \in {"stopped", "replaying", "failed"} => (Quiet /\ srvHist = <<>>))
    /\ [][srvPhase = "failed" => srvPhase' = "failed"]_vars
    /\ [][(srvPhase = "replaying" /\ srvPhase' # "failed") =>
            \/ /\ replay.stmts = <<>> /\ replay.todo # <<>>
               /\ ParseScript(Head(replay.todo)).errs = <<>>
               /\ replay' = [replay EXCEPT !.todo = Tail(@),
                                           !.stmts = ParseScript(Head(replay.todo)).stmts]
               /\ srvPhase' = "replaying"
            \/ /\ replay.stmts # <<>>
               /\ \E o \in ExecuteStatement(Head(replay.stmts)) : o.err = "" /\ Stepped(o)
               /\ replay' = [replay EXCEPT !.stmts = Tail(@)]
               /\ srvPhase' = "replaying"
            \/ /\ replay.stmts = <<>> /\ replay.todo = <<>> /\ ~replay.err
               /\ srvPhase' = "restarted"]_vars

\* Start has returned an error: the first record was replayed and changed the
\* catalog, the second one does not parse
C19_Witness ==
    /\ srvPhase = "failed"
    /\ replay.stmts = <<>> /\ replay.todo # <<>>
    /\ ParseScript(Head(replay.todo)).errs # <<>>
    /\ cur # 0 /\ heap[cur].Version = 2
    /\ Quiet

\* The commands appended to the commit log since the startup: in the file, in
\* the buffer and in the queue
LoggedSinceStart ==
    Replay(clFormat, SubSeq(Flushed(clFile, clBuf), replay.base + 1,
                            Len(Flushed(clFile, clBuf)))).cmds \o clQueue
\* What the claim requires of a command for its text to be appended
Appendable(e) ==
    /\ ParseScript(e.cmd).errs = <<>>
    /\ e.err = ""
    /\ \E i \in DOMAIN ParseScript(e.cmd).stmts : ParseScript(e.cmd).stmts[i].kind # "MatchStmt"

\* The claim about the commands that the log holds: logged
AppendsAsClaimed(logged) ==
    /\ srvPhase \in {"replaying", "failed"} => logged = <<>>
    /\ srvPhase = "restarted" =>
            \A i \in DOMAIN logged :
                /\ logged[i] = TrimSpace(logged[i])
                /\ logged[i][Len(logged[i])] = 59
                /\ \E j \in DOMAIN srvHist : srvHist[j].cmd = logged[i] /\ Appendable(srvHist[j])
    /\ (srvPhase = "restarted" /\ Quiet) =>
            \A k \in Commands :
                Count(logged, Cmd(k))
                    = Cardinality({i \in DOMAIN srvHist :
                                      srvHist[i].cmd = Cmd(k) /\ Appendable(srvHist[i])})

\* C20: the text of a command, trimmed and ending in ';', is appended to the
\* commit log if and only if it parsed without errors, all its statements
\* executed without error, at least one of them is not a MATCH and the server is
\* not replaying; the startup replay appends nothing and a MATCH-only command is
\* never appended.
C20_AppendedIffMutated == AppendsAsClaimed(LoggedSinceStart)

\* After a replay of two records, a client's MATCH and a client's INSERT both
\* succeeded: the log has grown by the INSERT only
C20_Witness ==
    /\ srvPhase = "restarted" /\ Quiet
    /\ replay.base > 0
    /\ Len(srvHist) = 2
    /\ \E i \in DOMAIN srvHist : srvHist[i].cmd = Cmd(6) /\ srvHist[i].err = ""
    /\ \E i \in DOMAIN srvHist : srvHist[i].cmd = Cmd(3) /\ srvHist[i].err = ""
    /\ LoggedSinceStart = <<Cmd(3)>>

\* The step is an executeCommand that has returned for a command for which
\* ParseScript reports an error
ParseErrorsAnswered ==
    /\ Len(srvHist') = Len(srvHist) + 1
    /\ ParseScript(srvHist'[Len(srvHist')].cmd).errs # <<>>

\* C21: a command for which ParseScript reports at least one error changes
\* nothing: none of its statements is executed, the catalog, the graph data and
\* the id counter are unchanged, and nothing is appended to the commit log or
\* to the DDL log.
C21_ParseErrorsChangeNothing ==
    /\ [][ParseErrorsAnswered =>
            /\ CatValue(heap', cur') = CatValue(heap, cur)
            /\ graph' = graph
            /\ ddlLog' = ddlLog /\ ddlOffset' = ddlOffset /\ manifest' = manifest
            /\ clQueue' = clQueue /\ clBuf' = clBuf /\ clFile' = clFile
            /\ conn' = conn
            /\ ~srvHist'[Len(srvHist')].mutated /\ ~srvHist'[Len(srvHist')].changed]_vars
    /\ [](\A c \in Conns : conn[c].pc # "idle" => ParseScript(conn[c].cmd).errs = <<>>)

\* After a replay that built a catalog and a graph, a client's command that
\* parses with an error (its first statement is a well-formed INSERT) has been
\* answered, and the graph is the replayed one
C21_Witness ==
    /\ srvPhase = "restarted" /\ Quiet
    /\ replay.base > 0
    /\ Len(srvHist) = 1
    /\ srvHist[1].cmd = Cmd(Len(Scripts) + 1)
    /\ ParseScript(srvHist[1].cmd).stmts # <<>>
    /\ graph.NextID = 2
    /\ LoggedSinceStart = <<>>

(***************************************************************************)
(* The server of SpecStartup, while the commit log it uses is also called  *)
(* with the empty command.                                                 *)
(***************************************************************************)
ServingNext ==
    \/ StartupNext
    \/ \E p \in Clients : AppendEmpty(p)

SpecServing == StartupInit /\ [][ServingNext]_vars

\* The Append calls made with the empty string
EmptyCalls(c) == {i \in DOMAIN c : c[i].cmd = <<>>}

\* C32: Append("") returns an error and has no effect: nothing is enqueued and
\* nothing is written.  The server never calls Append with an empty string:
\* what it appends for a command is never empty, and a line that trims to the
\* empty string is dropped before it is parsed or executed.
C32_EmptyRejected ==
    /\ [][EmptyCalls(clCalls') # EmptyCalls(clCalls) =>
            /\ \A i \in EmptyCalls(clCalls') : clCalls'[i].ret = "err"
            /\ UNCHANGED <<clFile, clFileOpen, clBuf, clQueue, clTodo, clLoc, clPc, clMu,
                           clStarted, clClosed, clDone>>]_vars
    /\ [][\A c \in Conns :
            (conn[c].pc = "append" /\ conn'[c].pc # "append") =>
                /\ toAppend(conn[c].cmd) # <<>>
                /\ clQueue' # clQueue =>
                        /\ Len(clQueue') = Len(clQueue) + 1
                        /\ clQueue'[Len(clQueue')] # <<>>]_vars
    /\ [](\A i \in DOMAIN clQueue : clQueue[i] # <<>>)
    /\ [](\A c \in Conns : conn[c].pc # "idle" => TrimSpace(conn[c].cmd) # <<>>)
    /\ [](\A i \in DOMAIN srvHist : TrimSpace(srvHist[i].cmd) # <<>>)

\* Append("") has returned its error, and the server has appended a command
\* that is now in the queue
C32_Witness ==
    /\ srvPhase = "restarted"
    /\ \E i \in DOMAIN clCalls : clCalls[i].cmd = <<>> /\ clCalls[i].ret = "err"
    /\ \E i \in DOMAIN srvHist : srvHist[i].mutated /\ srvHist[i].err = ""
    /\ clQueue # <<>>


\* C1: when every client command succeeded and the server was shut down
\* cleanly, the next server on the same directory finishes its startup replay
\* without error, with the catalog and the graph (nodes, edges, ids) that
\* existed just before the shutdown.
C1_ReplayFidelity ==
    (srvPhase \in {"restarted", "failed"} /\ \A i \in DOMAIN srvHist : srvHist[i].err = "")
        => /\ srvPhase = "restarted"
           /\ CatValue(heap, cur) = srvSaved.cat
           /\ GraphValue(graph) = GraphValue(srvSaved.graph)

\* C6: every command that changed the catalog or the graph has a record in the
\* commit log, a batch that failed after a successful statement included.
C6_MutationsLogged ==
    (srvPhase = "listening" /\ Quiet)
        => \A k \in DOMAIN Scripts :
              Count(srvHist, [cmd |-> Cmd(k), err |-> "", mutated |-> TRUE, changed |-> TRUE])
                  + Cardinality({i \in DOMAIN srvHist :
                                    srvHist[i].cmd = Cmd(k) /\ srvHist[i].err # ""
                                        /\ srvHist[i].changed})
                  <= Count(Records, Cmd(k))

\* C7: the records of the commit log are in the order in which the executor
\* applied the commands, whatever the connections they came from.
C7_LogOrderIsExecutionOrder ==
    srvPhase = "stopped" => Replay(clFormat, clFile).cmds = AppendedInOrder

\* C8: executing a statement has one result: from a given catalog and graph,
\* every statement yields a single graph and a single error, so a sequence of
\* statements run twice from the same state ends in the same graph.
C8_Deterministic ==
    srvPhase = "listening" => \A stmt \in Statements : Cardinality(ExecuteStatement(stmt)) = 1

(***************************************************************************)
(* The parser, on the tokens the lexer hands it.  A token is its type and  *)
(* its literal; after the last token the lexer returns EOF for ever.  The  *)
(* parser state is the token sequence, the position of the current token   *)
(* and the errors recorded; a parse function returns the parser state      *)
(* after it and its value.  A turn of the loop of ParseScript is one step, *)
(* and turns counts them.                                                  *)
(***************************************************************************)
T(type, lit) == [Type |-> type, Lit |-> lit]
EOFToken == T("EOF", "")

\* F(x), with x evaluated once: a call whose result is used in what follows
With(x, F(_)) == CHOOSE r \in {F(v) : v \in {x}} : TRUE

\* p.tok, and p.next(): the lexer stays at EOF
Tok(p) == IF p.pos <= Len(p.toks) THEN p.toks[p.pos] ELSE EOFToken
next(p) == [p EXCEPT !.pos = IF @ <= Len(p.toks) THEN @ + 1 ELSE @]

\* errf: the error is recorded, the tokens up to the next ';' are skipped and
\* the ';' is consumed
RECURSIVE skipToSemi(_)
skipToSemi(p) == IF Tok(p).Type \in {"SEMI", "EOF"} THEN p ELSE skipToSemi(next(p))
errf(p, msg) ==
    With(skipToSemi([p EXCEPT !.errs = Append(@, msg)]),
         LAMBDA q : IF Tok(q).Type = "SEMI" THEN next(q) ELSE q)

\* expect: the current token is returned and consumed; on a mismatch errf has
\* run before the next()
expect(p, tt) ==
    [p |-> next(IF Tok(p).Type # tt THEN errf(p, "expected " \o tt) ELSE p), t |-> Tok(p)]

\* A mutant of match: the token is compared and left in place
matchPeek(p, tt) == [p |-> p, ok |-> Tok(p).Type = tt]
match(p, tt) == [p |-> IF Tok(p).Type = tt THEN next(p) ELSE p, ok |-> Tok(p).Type = tt]

parseLiteral(p) ==
    CASE Tok(p).Type = "STRING" -> [p |-> next(p), v |-> Literal("LitString", Tok(p).Lit)]
      [] Tok(p).Type = "NUMBER" -> [p |-> next(p), v |-> Literal("LitNumber", Tok(p).Lit)]
      [] Tok(p).Type = "BOOL" -> [p |-> next(p), v |-> Literal("LitBool", Tok(p).Lit)]
      [] Tok(p).Type = "NULL" -> [p |-> next(p), v |-> Literal("LitNull", "null")]
      [] OTHER -> [p |-> next(errf(p, "expected literal")), v |-> Literal("LitNull", "null")]

BaseOfToken ==
    [STRINGKW |-> "BaseString", TEXT |-> "BaseText", INT |-> "BaseInt", FLOAT |-> "BaseFloat",
     BOOLKW |-> "BaseBool", UUID |-> "BaseUUID", DATE |-> "BaseDate", TIME |-> "BaseTime",
     DATETIME |-> "BaseDateTime", JSON |-> "BaseJSON", BLOB |-> "BaseBlob"]

\* the loop of the ENUM case: for p.match(COMMA) { p.expect(STRING) }
RECURSIVE enumVals(_, _)
enumVals(p, vals) ==
    IF Tok(p).Type # "COMMA" THEN [p |-> p, v |-> vals]
    ELSE With(expect(next(p), "STRING"), LAMBDA s : enumVals(s.p, Append(vals, s.t.Lit)))

RECURSIVE parseTypeSpec(_)
parseTypeSpec(p) ==
    CASE Tok(p).Type \in DOMAIN BaseOfToken ->
            [p |-> next(p), v |-> ParserType(BaseOfToken[Tok(p).Type])]
      [] Tok(p).Type = "ARRAY" ->
            With(parseTypeSpec(expect(next(p), "LT").p),
                 LAMBDA elem : [p |-> expect(elem.p, "GT").p,
                                v |-> [Base |-> "BaseString", Elem |-> <<elem.v>>,
                                       EnumVals |-> <<>>]])
      [] Tok(p).Type = "ENUM" ->
            With(expect(expect(next(p), "LT").p, "STRING"),
                 LAMBDA s : With(enumVals(s.p, <<s.t.Lit>>),
                 LAMBDA vals : [p |-> expect(vals.p, "GT").p,
                                v |-> [Base |-> "BaseString", Elem |-> <<>>,
                                       EnumVals |-> vals.v]]))
      [] OTHER -> [p |-> next(errf(p, "expected type")), v |-> ParserType("BaseString")]

\* the loop of parseFieldDef: zero or more field options
RECURSIVE fieldOptions(_, _)
fieldOptions(p, fd) ==
    CASE Tok(p).Type = "PRIMARY" ->
            fieldOptions(expect(next(p), "KEY").p, [fd EXCEPT !.PrimaryKey = TRUE])
      [] Tok(p).Type = "UNIQUE" -> fieldOptions(next(p), [fd EXCEPT !.Unique = TRUE])
      [] Tok(p).Type = "NOT" ->
            fieldOptions(expect(next(p), "NULL").p, [fd EXCEPT !.NotNull = TRUE])
      [] Tok(p).Type = "DEFAULT" ->
            With(parseLiteral(next(p)),
                 LAMBDA lit : fieldOptions(lit.p, [fd EXCEPT !.Default = <<lit.v>>]))
      [] OTHER -> [p |-> p, v |-> fd]
parseFieldDef(p) ==
    With(expect(p, "IDENT"),
         LAMBDA ident : With(parseTypeSpec(expect(ident.p, "COLON").p),
         LAMBDA ts : fieldOptions(ts.p, FieldDef(ident.t.Lit, ts.v, FALSE, FALSE, FALSE, <<>>))))

\* the loop over the field definitions of CREATE NODE and of PROPS
RECURSIVE fieldList(_, _)
fieldAppended(fields, fd) == IF fd.Name # "" THEN Append(fields, fd) ELSE fields
fieldList(p, fields) ==
    With(parseFieldDef(p),
         LAMBDA fd : With(match(fd.p, "COMMA"),
         LAMBDA m : IF ~m.ok \/ Tok(m.p).Type = "RPAREN"
                    THEN [p |-> m.p, v |-> fieldAppended(fields, fd.v)]
                    ELSE fieldList(m.p, fieldAppended(fields, fd.v))))
optionalFields(p) ==
    IF Tok(p).Type # "RPAREN" THEN fieldList(p, <<>>) ELSE [p |-> p, v |-> <<>>]

\* A parse function for a statement returns the statement in a sequence, or the
\* empty sequence for nil
parseCreateNode(p) ==
    With(expect(p, "IDENT"),
         LAMBDA nameTok : With(optionalFields(expect(nameTok.p, "LPAREN").p),
         LAMBDA fields : [p |-> expect(fields.p, "RPAREN").p,
                          v |-> <<CreateNodeStmt(nameTok.t.Lit, fields.v)>>]))

parseEndpoint(p) ==
    With(expect(p, "IDENT"),
         LAMBDA lbl :
            CASE Tok(lbl.p).Type = "ONE" ->
                    [p |-> next(lbl.p), v |-> ParserEndpoint(lbl.t.Lit, "CardOne")]
              [] Tok(lbl.p).Type = "MANY" ->
                    [p |-> next(lbl.p), v |-> ParserEndpoint(lbl.t.Lit, "CardMany")]
              [] OTHER -> [p |-> lbl.p, v |-> ParserEndpoint(lbl.t.Lit, "CardOne")])

\* the optional ', PROPS ( field_def, ... )' of CREATE EDGE
edgeProps(m) ==
    IF ~m.ok THEN [p |-> m.p, v |-> <<>>]
    ELSE With(optionalFields(expect(expect(m.p, "PROPS").p, "LPAREN").p),
              LAMBDA props : [p |-> expect(props.p, "RPAREN").p, v |-> props.v])
parseCreateEdge(p) ==
    With(expect(p, "IDENT"),
         LAMBDA nameTok : With(parseEndpoint(expect(expect(nameTok.p, "LPAREN").p, "FROM").p),
         LAMBDA from : With(parseEndpoint(expect(expect(from.p, "COMMA").p, "TO").p),
         LAMBDA to : With(edgeProps(match(to.p, "COMMA")),
         LAMBDA props : [p |-> expect(props.p, "RPAREN").p,
                         v |-> <<CreateEdgeStmt(nameTok.t.Lit, from.v, to.v, props.v)>>]))))

parseCreate(p) ==
    CASE Tok(next(p)).Type = "NODE" -> parseCreateNode(next(next(p)))
      [] Tok(next(p)).Type = "EDGE" -> parseCreateEdge(next(next(p)))
      [] OTHER -> [p |-> errf(next(p), "expected NODE or EDGE after CREATE"), v |-> <<>>]

\* the loop over the names of SET PRIMARY KEY ( ... ) and of RETURN
RECURSIVE identList(_, _)
identList(p, names) ==
    With(expect(p, "IDENT"),
         LAMBDA name : With(match(name.p, "COMMA"),
         LAMBDA m : IF m.ok THEN identList(m.p, Append(names, name.t.Lit))
                    ELSE [p |-> m.p, v |-> Append(names, name.t.Lit)]))

alterNodeField(name, action, p) ==
    With(parseFieldDef(p),
         LAMBDA field : [p |-> field.p,
                         v |-> <<AlterNodeStmt(name, action, <<field.v>>, "", <<>>)>>])
alterNodeDrop(name, p) ==
    With(expect(p, "IDENT"),
         LAMBDA fieldName :
            [p |-> fieldName.p,
             v |-> <<AlterNodeStmt(name, "AlterDropField", <<>>, fieldName.t.Lit, <<>>)>>])
alterNodeKey(name, p) ==
    With(identList(expect(expect(expect(p, "PRIMARY").p, "KEY").p, "LPAREN").p, <<>>),
         LAMBDA pkFields :
            [p |-> expect(pkFields.p, "RPAREN").p,
             v |-> <<AlterNodeStmt(name, "AlterSetPrimaryKey", <<>>, "", pkFields.v)>>])
parseAlterNode(p) ==
    With(expect(p, "IDENT"),
         LAMBDA name :
            CASE Tok(name.p).Type = "ADD" ->
                    alterNodeField(name.t.Lit, "AlterAddField", next(name.p))
              [] Tok(name.p).Type = "DROP" -> alterNodeDrop(name.t.Lit, next(name.p))
              [] Tok(name.p).Type = "MODIFY" ->
                    alterNodeField(name.t.Lit, "AlterModifyField", next(name.p))
              [] Tok(name.p).Type = "SET" -> alterNodeKey(name.t.Lit, next(name.p))
              [] OTHER ->
                    [p |-> errf(name.p, "expected ADD, DROP, MODIFY, or SET after ALTER NODE"),
                     v |-> <<>>])

alterEdgeProp(name, action, p) ==
    With(parseFieldDef(p),
         LAMBDA prop : [p |-> prop.p,
                        v |-> <<AlterEdgeStmt(name, action, <<prop.v>>, "", <<>>, <<>>)>>])
alterEdgeDrop(name, p) ==
    With(expect(p, "IDENT"),
         LAMBDA propName :
            [p |-> propName.p,
             v |-> <<AlterEdgeStmt(name, "AlterDropProp", <<>>, propName.t.Lit, <<>>, <<>>)>>])
alterEdgeEndpoints(name, p) ==
    With(parseEndpoint(expect(p, "FROM").p),
         LAMBDA from : With(parseEndpoint(expect(from.p, "TO").p),
         LAMBDA to : [p |-> to.p,
                      v |-> <<AlterEdgeStmt(name, "AlterSetEndpoints", <<>>, "",
                                            <<from.v>>, <<to.v>>)>>]))
parseAlterEdge(p) ==
    With(expect(p, "IDENT"),
         LAMBDA name :
            CASE Tok(name.p).Type = "ADD" ->
                    alterEdgeProp(name.t.Lit, "AlterAddProp", next(name.p))
              [] Tok(name.p).Type = "DROP" -> alterEdgeDrop(name.t.Lit, next(name.p))
              [] Tok(name.p).Type = "MODIFY" ->
                    alterEdgeProp(name.t.Lit, "AlterModifyProp", next(name.p))
              [] Tok(name.p).Type = "SET" -> alterEdgeEndpoints(name.t.Lit, next(name.p))
              [] OTHER ->
                    [p |-> errf(name.p, "expected ADD, DROP, MODIFY, or SET after ALTER EDGE"),
                     v |-> <<>>])

parseAlter(p) ==
    CASE Tok(next(p)).Type = "NODE" -> parseAlterNode(next(next(p)))
      [] Tok(next(p)).Type = "EDGE" -> parseAlterEdge(next(next(p)))
      [] OTHER -> [p |-> errf(next(p), "expected NODE or EDGE after ALTER"), v |-> <<>>]

parseDropNode(p) ==
    With(expect(p, "IDENT"), LAMBDA name : [p |-> name.p, v |-> <<DropNodeStmt(name.t.Lit)>>])
\* parseDropEdge reads the name from the token after the one expect returned,
\* and consumes that token too
parseDropEdge(p) ==
    With(expect(p, "IDENT"),
         LAMBDA name : [p |-> next(name.p), v |-> <<DropEdgeStmt(Tok(name.p).Lit)>>])
parseDrop(p) ==
    CASE Tok(next(p)).Type = "NODE" -> parseDropNode(next(next(p)))
      [] Tok(next(p)).Type = "EDGE" -> parseDropEdge(next(next(p)))
      [] OTHER -> [p |-> errf(next(p), "expected NODE or EDGE after DROP"), v |-> <<>>]

\* the loop of parsePropertyList: name ':' literal, while a ',' follows
RECURSIVE propertyList(_, _)
propertyList(p, properties) ==
    With(expect(p, "IDENT"),
         LAMBDA name : With(parseLiteral(expect(name.p, "COLON").p),
         LAMBDA lit : With(match(lit.p, "COMMA"),
         LAMBDA m : IF m.ok
                    THEN propertyList(m.p, Append(properties, Property(name.t.Lit, lit.v)))
                    ELSE [p |-> m.p, v |-> Append(properties, Property(name.t.Lit, lit.v))])))
parsePropertyList(p) == propertyList(p, <<>>)

\* '(' properties ')' if a '(' follows; WHERE properties if WHERE follows
parenProperties(m) ==
    IF ~m.ok THEN [p |-> m.p, v |-> <<>>]
    ELSE With(parsePropertyList(m.p),
              LAMBDA properties : [p |-> expect(properties.p, "RPAREN").p, v |-> properties.v])
whereProperties(m) == IF ~m.ok THEN [p |-> m.p, v |-> <<>>] ELSE parsePropertyList(m.p)

nodeRefBody(type, m) ==
    IF ~m.ok THEN [p |-> m.p, v |-> NodeRef(type, <<>>, <<>>)]
    ELSE IF Tok(m.p).Type \in {"NUMBER", "STRING"}
    THEN With(parseLiteral(m.p),
              LAMBDA lit : [p |-> expect(lit.p, "RPAREN").p, v |-> NodeRef(type, <<lit.v>>, <<>>)])
    ELSE With(parsePropertyList(m.p),
              LAMBDA properties : [p |-> expect(properties.p, "RPAREN").p,
                                   v |-> NodeRef(type, <<>>, properties.v)])
parseNodeRef(p) ==
    With(expect(p, "IDENT"), LAMBDA type : nodeRefBody(type.t.Lit, match(type.p, "LPAREN")))

parseInsertNode(p) ==
    With(expect(expect(p, "NODE").p, "IDENT"),
         LAMBDA nodeType : With(parenProperties(match(nodeType.p, "LPAREN")),
         LAMBDA properties : [p |-> properties.p,
                              v |-> <<InsertNodeStmt(nodeType.t.Lit, properties.v)>>]))
parseInsertEdge(p) ==
    With(expect(expect(p, "EDGE").p, "IDENT"),
         LAMBDA edgeType : With(parseNodeRef(expect(edgeType.p, "FROM").p),
         LAMBDA fromNode : With(parseNodeRef(expect(fromNode.p, "TO").p),
         LAMBDA toNode : With(parenProperties(match(toNode.p, "LPAREN")),
         LAMBDA properties :
            [p |-> properties.p,
             v |-> <<InsertEdgeStmt(edgeType.t.Lit, fromNode.v, toNode.v, properties.v)>>]))))
parseInsert(p) ==
    With(expect(p, "INSERT").p,
         LAMBDA q : CASE Tok(q).Type = "NODE" -> parseInsertNode(q)
                      [] Tok(q).Type = "EDGE" -> parseInsertEdge(q)
                      [] OTHER -> [p |-> errf(q, "expected NODE or EDGE after INSERT"),
                                   v |-> <<>>])

\* UPDATE NODE and UPDATE EDGE: the keyword, the type, SET properties and the
\* optional WHERE properties
updateBody(p, kw) ==
    With(expect(expect(p, kw).p, "IDENT"),
         LAMBDA type : With(parsePropertyList(expect(type.p, "SET").p),
         LAMBDA setProps : With(whereProperties(match(setProps.p, "WHERE")),
         LAMBDA whereProps : [p |-> whereProps.p, type |-> type.t.Lit, set |-> setProps.v,
                              where |-> whereProps.v])))
parseUpdateNode(p) ==
    With(updateBody(p, "NODE"),
         LAMBDA b : [p |-> b.p, v |-> <<UpdateNodeStmt(b.type, b.where, b.set)>>])
parseUpdateEdge(p) ==
    With(updateBody(p, "EDGE"),
         LAMBDA b : [p |-> b.p, v |-> <<UpdateEdgeStmt(b.type, b.where, b.set)>>])
parseUpdate(p) ==
    With(expect(p, "UPDATE").p,
         LAMBDA q : CASE Tok(q).Type = "NODE" -> parseUpdateNode(q)
                      [] Tok(q).Type = "EDGE" -> parseUpdateEdge(q)
                      [] OTHER -> [p |-> errf(q, "expected NODE or EDGE after UPDATE"),
                                   v |-> <<>>])

deleteBody(p, kw) ==
    With(expect(expect(p, kw).p, "IDENT"),
         LAMBDA type : With(parsePropertyList(expect(type.p, "WHERE").p),
         LAMBDA whereProps : [p |-> whereProps.p, type |-> type.t.Lit, where |-> whereProps.v]))
parseDeleteNode(p) ==
    With(deleteBody(p, "NODE"), LAMBDA b : [p |-> b.p, v |-> <<DeleteNodeStmt(b.type, b.where)>>])
parseDeleteEdge(p) ==
    With(deleteBody(p, "EDGE"), LAMBDA b : [p |-> b.p, v |-> <<DeleteEdgeStmt(b.type, b.where)>>])
parseDelete(p) ==
    With(expect(p, "DELETE").p,
         LAMBDA q : CASE Tok(q).Type = "NODE" -> parseDeleteNode(q)
                      [] Tok(q).Type = "EDGE" -> parseDeleteEdge(q)
                      [] OTHER -> [p |-> errf(q, "expected NODE or EDGE after DELETE"),
                                   v |-> <<>>])

\* the pattern loop of parseMatch: a type, an alias if an identifier follows,
\* while a ',' follows
RECURSIVE matchPattern(_, _)
matchElement(p) ==
    IF Tok(next(p)).Type = "IDENT"
    THEN [p |-> next(next(p)), v |-> MatchElement(Tok(p).Lit, Tok(next(p)).Lit)]
    ELSE [p |-> next(p), v |-> MatchElement(Tok(p).Lit, "")]
matchPattern(p, pattern) ==
    IF Tok(p).Type # "IDENT" THEN [p |-> p, v |-> pattern]
    ELSE With(matchElement(p),
              LAMBDA element : With(match(element.p, "COMMA"),
              LAMBDA m : IF m.ok THEN matchPattern(m.p, Append(pattern, element.v))
                         ELSE [p |-> m.p, v |-> Append(pattern, element.v)]))
returnFields(m) == IF ~m.ok THEN [p |-> m.p, v |-> <<>>] ELSE identList(m.p, <<>>)
parseMatch(p) ==
    With(matchPattern(expect(p, "MATCH").p, <<>>),
         LAMBDA pattern : With(whereProperties(match(pattern.p, "WHERE")),
         LAMBDA whereProps : With(returnFields(match(whereProps.p, "RETURN")),
         LAMBDA ret : [p |-> ret.p, v |-> <<MatchStmt(pattern.v, whereProps.v, ret.v)>>])))

parseStmt(p) ==
    CASE Tok(p).Type = "CREATE" -> parseCreate(p)
      [] Tok(p).Type = "ALTER" -> parseAlter(p)
      [] Tok(p).Type = "DROP" -> parseDrop(p)
      [] Tok(p).Type = "INSERT" -> parseInsert(p)
      [] Tok(p).Type = "UPDATE" -> parseUpdate(p)
      [] Tok(p).Type = "DELETE" -> parseDelete(p)
      [] Tok(p).Type = "MATCH" -> parseMatch(p)
      [] OTHER -> [p |-> errf(p, "unexpected token at start of statement"), v |-> <<>>]

\* Tokens as the lexer makes them: a keyword, an identifier, literals, symbols
K(kw) == T(kw, kw)
Id(name) == T("IDENT", name)
Str(s) == T("STRING", s)
Num(n) == T("NUMBER", n)
LP == T("LPAREN", "(")
RP == T("RPAREN", ")")
LTs == T("LT", "<")
GTs == T("GT", ">")
CM == T("COMMA", ",")
SC == T("SEMI", ";")
CL == T("COLON", ":")

\* Well-formed statements, one of each kind the grammar has, each with the
\* statement the grammar gives it:
\*   CREATE NODE A (x: STRING NOT NULL, y: ARRAY<INT>);
\*   CREATE EDGE E (FROM A ONE, TO B MANY, PROPS (w: ENUM<'a', 'b'> DEFAULT 'a'));
\*   ALTER NODE A ADD y: INT;        ALTER NODE A SET PRIMARY KEY (x, y);
\*   ALTER EDGE E SET FROM A TO B MANY;        DROP NODE A;
\*   INSERT NODE A (x: '1', w: true);
\*   INSERT EDGE E FROM A ('1') TO B (y: null) (w: 2);
\*   UPDATE NODE A SET x: '3' WHERE w: true;   UPDATE EDGE E SET w: false;
\*   DELETE NODE A WHERE x: '1';     DELETE EDGE E WHERE w: true;
\*   MATCH A a, B WHERE x: '1' RETURN a, b;
WellFormed ==
    <<
      [toks |-> <<K("CREATE"), K("NODE"), Id("A"), LP, Id("x"), CL, T("STRINGKW", "STRING"),
                  K("NOT"), T("NULL", "null"), CM, Id("y"), CL, K("ARRAY"), LTs, K("INT"), GTs,
                  RP, SC>>,
       stmt |-> CreateNodeStmt("A",
                   <<FieldDef("x", ParserType("BaseString"), FALSE, FALSE, TRUE, <<>>),
                     FieldDef("y", [Base |-> "BaseString", Elem |-> <<ParserType("BaseInt")>>,
                                    EnumVals |-> <<>>], FALSE, FALSE, FALSE, <<>>)>>)],
      [toks |-> <<K("CREATE"), K("EDGE"), Id("E"), LP, K("FROM"), Id("A"), K("ONE"), CM,
                  K("TO"), Id("B"), K("MANY"), CM, K("PROPS"), LP, Id("w"), CL, K("ENUM"), LTs,
                  Str("a"), CM, Str("b"), GTs, K("DEFAULT"), Str("a"), RP, RP, SC>>,
       stmt |-> CreateEdgeStmt("E", ParserEndpoint("A", "CardOne"), ParserEndpoint("B", "CardMany"),
                   <<FieldDef("w", [Base |-> "BaseString", Elem |-> <<>>, EnumVals |-> <<"a", "b">>],
                              FALSE, FALSE, FALSE, <<Literal("LitString", "a")>>)>>)],
      [toks |-> <<K("ALTER"), K("NODE"), Id("A"), K("ADD"), Id("y"), CL, K("INT"), SC>>,
       stmt |-> AlterNodeStmt("A", "AlterAddField",
                   <<FieldDef("y", ParserType("BaseInt"), FALSE, FALSE, FALSE, <<>>)>>, "", <<>>)],
      [toks |-> <<K("ALTER"), K("NODE"), Id("A"), K("SET"), K("PRIMARY"), K("KEY"), LP, Id("x"),
                  CM, Id("y"), RP, SC>>,
       stmt |-> AlterNodeStmt("A", "AlterSetPrimaryKey", <<>>, "", <<"x", "y">>)],
      [toks |-> <<K("ALTER"), K("EDGE"), Id("E"), K("SET"), K("FROM"), Id("A"), K("TO"), Id("B"),
                  K("MANY"), SC>>,
       stmt |-> AlterEdgeStmt("E", "AlterSetEndpoints", <<>>, "",
                   <<ParserEndpoint("A", "CardOne")>>, <<ParserEndpoint("B", "CardMany")>>)],
      [toks |-> <<K("DROP"), K("NODE"), Id("A"), SC>>, stmt |-> DropNodeStmt("A")],
      [toks |-> <<K("INSERT"), K("NODE"), Id("A"), LP, Id("x"), CL, Str("1"), CM, Id("w"), CL,
                  T("BOOL", "true"), RP, SC>>,
       stmt |-> InsertNodeStmt("A", <<Property("x", Literal("LitString", "1")),
                                      Property("w", Literal("LitBool", "true"))>>)],
      [toks |-> <<K("INSERT"), K("EDGE"), Id("E"), K("FROM"), Id("A"), LP, Str("1"), RP, K("TO"),
                  Id("B"), LP, Id("y"), CL, T("NULL", "null"), RP, LP, Id("w"), CL, Num("2"), RP,
                  SC>>,
       stmt |-> InsertEdgeStmt("E", NodeRef("A", <<Literal("LitString", "1")>>, <<>>),
                   NodeRef("B", <<>>, <<Property("y", Literal("LitNull", "null"))>>),
                   <<Property("w", Literal("LitNumber", "2"))>>)],
      [toks |-> <<K("UPDATE"), K("NODE"), Id("A"), K("SET"), Id("x"), CL, Str("3"), K("WHERE"),
                  Id("w"), CL, T("BOOL", "true"), SC>>,
       stmt |-> UpdateNodeStmt("A", <<Property("w", Literal("LitBool", "true"))>>,
                               <<Property("x", Literal("LitString", "3"))>>)],
      [toks |-> <<K("UPDATE"), K("EDGE"), Id("E"), K("SET"), Id("w"), CL, T("BOOL", "false"), SC>>,
       stmt |-> UpdateEdgeStmt("E", <<>>, <<Property("w", Literal("LitBool", "false"))>>)],
      [toks |-> <<K("DELETE"), K("NODE"), Id("A"), K("WHERE"), Id("x"), CL, Str("1"), SC>>,
       stmt |-> DeleteNodeStmt("A", <<Property("x", Literal("LitString", "1"))>>)],
      [toks |-> <<K("DELETE"), K("EDGE"), Id("E"), K("WHERE"), Id("w"), CL, T("BOOL", "true"), SC>>,
       stmt |-> DeleteEdgeStmt("E", <<Property("w", Literal("LitBool", "true"))>>)],
      [toks |-> <<K("MATCH"), Id("A"), Id("a"), CM, Id("B"), K("WHERE"), Id("x"), CL, Str("1"),
                  K("RETURN"), Id("a"), CM, Id("b"), SC>>,
       stmt |-> MatchStmt(<<MatchElement("A", "a"), MatchElement("B", "")>>,
                          <<Property("x", Literal("LitString", "1"))>>, <<"a", "b">>)]
    >>

\* Malformed statements, each ending in ';':
\*   A;   CREATE A;   ALTER NODE A RENAME;   INSERT NODE A (x: '1'));
\*   INSERT NODE;   CREATE NODE (x: STRING);   INSERT NODE A (x '1');
\*   UPDATE NODE A SET;   DELETE NODE A;   MATCH WHERE;
Malformed ==
    <<
      <<Id("A"), SC>>,
      <<K("CREATE"), Id("A"), SC>>,
      <<K("ALTER"), K("NODE"), Id("A"), Id("RENAME"), SC>>,
      <<K("INSERT"), K("NODE"), Id("A"), LP, Id("x"), CL, Str("1"), RP, RP, SC>>,
      <<K("INSERT"), K("NODE"), SC>>,
      <<K("CREATE"), K("NODE"), LP, Id("x"), CL, T("STRINGKW", "STRING"), RP, SC>>,
      <<K("INSERT"), K("NODE"), Id("A"), LP, Id("x"), Str("1"), RP, SC>>,
      <<K("UPDATE"), K("NODE"), Id("A"), K("SET"), SC>>,
      <<K("DELETE"), K("NODE"), Id("A"), SC>>,
      <<K("MATCH"), K("WHERE"), SC>>
    >>
\* DROP EDGE E;
DropEdgeTokens == <<K("DROP"), K("EDGE"), Id("E"), SC>>

\* The tokens of the scripts the clients send, and of the command that parses
\* with an error
InsertA(x) == <<K("INSERT"), K("NODE"), Id("A"), LP, Id("x"), CL, Str(x), RP, SC>>
ScriptTokens ==
    <<
      <<K("CREATE"), K("NODE"), Id("A"), LP, Id("x"), CL, T("STRINGKW", "STRING"), K("NOT"),
        T("NULL", "null"), RP, SC,
        K("CREATE"), K("EDGE"), Id("E"), LP, K("FROM"), Id("A"), K("ONE"), CM, K("TO"), Id("A"),
        K("MANY"), RP, SC>>,
      InsertA("1"),
      InsertA("2"),
      InsertA("1") \o <<K("INSERT"), K("EDGE"), Id("E"), K("FROM"), Id("A"), LP, Id("x"), CL,
                         Str("1"), RP, K("TO"), Id("A"), LP, Id("x"), CL, Str("1"), RP, SC>>,
      InsertA("1") \o <<K("INSERT"), K("NODE"), Id("B"), LP, Id("x"), CL, Str("1"), RP, SC>>,
      <<K("MATCH"), Id("A"), SC>>,
      <<K("UPDATE"), K("NODE"), Id("A"), K("SET"), Id("x"), CL, Str("1"), K("WHERE"), Id("x"),
        CL, Str("2"), SC,
        K("UPDATE"), K("EDGE"), Id("E"), K("SET"), Id("w"), CL, T("BOOL", "true"), SC>>,
      <<K("DELETE"), K("EDGE"), Id("E"), K("WHERE"), Id("w"), CL, T("BOOL", "true"), SC,
        K("DELETE"), K("NODE"), Id("A"), K("WHERE"), Id("x"), CL, Str("1"), SC>>,
      <<K("ALTER"), K("EDGE"), Id("E"), K("ADD"), Id("w"), CL, T("BOOLKW", "BOOL"), SC,
        K("ALTER"), K("NODE"), Id("A"), K("ADD"), Id("y"), CL, K("INT"), SC>>,
      <<K("INSERT"), K("EDGE"), Id("E"), K("FROM"), Id("A"), LP, Num("1"), RP, K("TO"), Id("A"),
        LP, Num("2"), RP, SC,
        K("DROP"), K("NODE"), Id("A"), SC>>
    >>
BrokenTokens == InsertA("1") \o <<Id("k"), SC>>

\* The inputs: every sequence of at most MaxTokens tokens of a small alphabet,
\* every prefix of a well-formed statement, every malformed statement followed
\* by a well-formed one, and the commands of the clients
MaxTokens == 3
Alphabet == {K("INSERT"), K("NODE"), K("MATCH"), Id("A"), LP, RP, CL, CM, SC, Str("1")}
Prefixes(s) == {SubSeq(s, 1, n) : n \in 0..Len(s)}
Inputs ==
    UNION {[1..n -> Alphabet] : n \in 0..MaxTokens}
    \cup UNION {Prefixes(WellFormed[i].toks) : i \in DOMAIN WellFormed}
    \cup Prefixes(DropEdgeTokens)
    \cup Range(ScriptTokens) \cup {BrokenTokens}
    \cup {Malformed[i] \o WellFormed[j].toks : i \in DOMAIN Malformed, j \in DOMAIN WellFormed}

\* NewParser(input): the first token is the current one
NewParser(toks) ==
    [pc |-> "loop", toks |-> toks, pos |-> 1, out |-> <<>>, errs |-> <<>>, turns |-> 0]

\* ParseScript, a turn that skips a stray ';'
ScriptSemi ==
    /\ ps.pc = "loop"
    /\ Tok(ps).Type # "EOF"
    /\ ps.turns <= Len(ps.toks)
    /\ match(ps, "SEMI").ok
    /\ ps' = [match(ps, "SEMI").p EXCEPT !.turns = @ + 1]
    /\ UNCHANGED <<heap, applyVars, regVars, logVars, srvVars, wrVars, exVars, stVars>>

\* the statement is appended unless it is nil, and a ';' is required after it
stmtParsed(st) ==
    IF st.v = <<>> THEN st.p
    ELSE IF match(st.p, "SEMI").ok THEN [match(st.p, "SEMI").p EXCEPT !.out = @ \o st.v]
    ELSE [errf(st.p, "missing ';' after statement") EXCEPT !.out = @ \o st.v]
parseTurn(p) == With(parseStmt(p), LAMBDA st : [stmtParsed(st) EXCEPT !.turns = @ + 1])
\* ParseScript, a turn that parses a statement
ScriptStmt ==
    /\ ps.pc = "loop"
    /\ Tok(ps).Type # "EOF"
    /\ ps.turns <= Len(ps.toks)
    /\ ~match(ps, "SEMI").ok
    /\ ps' = parseTurn(ps)
    /\ UNCHANGED <<heap, applyVars, regVars, logVars, srvVars, wrVars, exVars, stVars>>

\* ParseScript returns out and the errors
ScriptEnd ==
    /\ ps.pc = "loop"
    /\ Tok(ps).Type = "EOF"
    /\ ps' = [ps EXCEPT !.pc = "done"]
    /\ UNCHANGED <<heap, applyVars, regVars, logVars, srvVars, wrVars, exVars, stVars>>

ParserNext == ScriptSemi \/ ScriptStmt \/ ScriptEnd
ParserInit ==
    /\ RegistryStart /\ SrvIdle /\ ExecIdle /\ ApplyIdle /\ LogIdle /\ WritersIdle /\ StoreIdle
    /\ ps \in {NewParser(toks) : toks \in Inputs}
SpecParser == ParserInit /\ [][ParserNext]_vars

\* The grammar's statement is what the parser returns for each well-formed
\* statement on its own
WellFormedParsed ==
    \A i \in DOMAIN WellFormed :
        (ps.pc = "done" /\ ps.toks = WellFormed[i].toks) =>
            ps.out = <<WellFormed[i].stmt>> /\ ps.errs = <<>>

\* ParseScript(text) on the commands of the clients is what the parser returns
\* for their tokens
ScriptsParsed ==
    /\ \A k \in DOMAIN Scripts :
            (ps.pc = "done" /\ ps.toks = ScriptTokens[k]) =>
                /\ ps.out = ParseScript(Cmd(k)).stmts
                /\ ps.errs = ParseScript(Cmd(k)).errs
    /\ (ps.pc = "done" /\ ps.toks = BrokenTokens) =>
            /\ ps.out = ParseScript(Cmd(Len(Scripts) + 1)).stmts
            /\ ps.errs = ParseScript(Cmd(Len(Scripts) + 1)).errs
\* DROP EDGE E; does not parse: the statement returned is named after the ';'
DropEdgeParsed ==
    (ps.pc = "done" /\ ps.toks = DropEdgeTokens) =>
        /\ ps.out = <<DropEdgeStmt(";")>>
        /\ ps.errs = <<"missing ';' after statement">>

\* C26: after a syntactically invalid statement the parser records the error,
\* discards the tokens up to and including the next ';' and goes on parsing: for
\* every script made of a malformed statement ending in ';' followed by a
\* well-formed statement ending in ';', ParseScript returns at least one error
\* and returns the well-formed statement.
C26_Recovers ==
    \A i \in DOMAIN Malformed, j \in DOMAIN WellFormed :
        (ps.pc = "done" /\ ps.toks = Malformed[i] \o WellFormed[j].toks) =>
            /\ ps.errs # <<>>
            /\ WellFormed[j].stmt \in Range(ps.out)

\* The malformed statements whose error is found where a statement, or the
\* NODE or EDGE of CREATE and ALTER, or the action of ALTER, is expected, and
\* the one that is a statement with a token too many before the ';': for these
\* the parser does recover
RecoversAtStart ==
    \A i \in 1..4, j \in DOMAIN WellFormed :
        (ps.pc = "done" /\ ps.toks = Malformed[i] \o WellFormed[j].toks) =>
            /\ ps.errs # <<>>
            /\ ps.out[Len(ps.out)] = WellFormed[j].stmt

\* C27: ParseScript terminates on every input token sequence, including
\* sequences that end inside a statement, a field list, a property list or a
\* MATCH pattern, and when it returns the parser's current token is EOF.  Every
\* turn of the loop consumes at least one token, so the loop has taken fewer
\* turns than the position of the current token, which is never beyond the
\* EOF after the last token; at EOF the loop returns.
C27_Terminates ==
    /\ ps.pc = "loop" => ps.turns < ps.pos
    /\ ps.pc \in {"loop", "done"} => ps.pos <= Len(ps.toks) + 1
    /\ ps.pc = "done" => (ps.pos = Len(ps.toks) + 1 /\ Tok(ps) = EOFToken)

\* ParseScript has returned on an input that ends inside a property list, with
\* errors recorded
C27_Witness ==
    /\ ps.pc = "done"
    /\ ps.toks = <<K("INSERT"), K("NODE"), Id("A"), LP, Id("x"), CL, Str("1"), CM>>
    /\ ps.errs # <<>>
    /\ ps.pos = 9

====
